---- MODULE Spec2Model ----
(***************************************************************************)
(* Model of the animated renderer: FFmpegAnimatedRendererService.render    *)
(* (cache check, codec initialisation, fast and quality pipelines), the    *)
(* codec runtime's virtual file system, the FrameProcessorPool with its    *)
(* worker threads, and the MemoryCache.  Every await of the source is a    *)
(* suspension point: one action is the code that runs between two awaits.  *)
(***************************************************************************)
EXTENDS Integers, Sequences, FiniteSets, TLC

(***************************************************************************)
(* Bounds of the model.                                                    *)
(***************************************************************************)
MaxCalls == 2          \* render calls that may be in flight together
CodecRenders == 2      \* render calls started in one behaviour of SpecCodec
PoolRenders == 2       \* ... of SpecPool
CacheRenders == 3      \* ... of SpecCache
MaxFrames == 2         \* metadata.frameCount of a job is in 1..MaxFrames
MaxTime == 2           \* the clock runs from 0 to MaxTime
ExtraProduced == 3     \* a video decode yields up to frameCount + ExtraProduced PNGs
PipelineRenders == 1   \* render calls started in one behaviour of SpecPipeline
MaxDecimate == 4       \* frames handed to decimateFrames on its own: 0..MaxDecimate
MaxBitmapLen == 5      \* bytes of a bitmap handed to calculateSimilarity on its own
DimSpan == 30          \* configured dimensions are taken within DimSpan of 1, 720, 1280
LruMaxEntries == 2     \* capacity of a MemoryCache used on its own
LruOps == 5            \* gets and sets applied to it
UnlinkRenders == 1     \* renders made while unlinks throw
MaxSubmissions == 3    \* tasks submitted to a pool used on its own

(***************************************************************************)
(* Construction options of the service (FFmpegAnimatedRendererOptions).    *)
(***************************************************************************)
workerPoolSize == 2
cacheEntries == 1
cacheTtlMs == 1

Calls == 1..MaxCalls
NoKey == "none"        \* job.options.cacheKey is undefined
CacheKeys == {"k1", "k2"}
None == [none |-> TRUE]

Max(a, b) == IF a >= b THEN a ELSE b
Min(a, b) == IF a <= b THEN a ELSE b
Workers == 0..(Max(1, workerPoolSize) - 1)

(***************************************************************************)
(* Frames and bitmaps.  A bitmap is a sequence of bytes, four per pixel.   *)
(* The bitmap of frame i of the source of job id is Bitmap(id, i).         *)
(***************************************************************************)
Bitmap(id, i) == <<(16 * id + i) % 256, 0, 0, 255>>

At(a, i) == IF i <= Len(a) THEN a[i] ELSE 0
Abs(x) == IF x < 0 THEN -x ELSE x

RECURSIVE SumDiff(_, _, _)
SumDiff(a, b, index) ==
  IF index > Len(a) THEN 0
  ELSE Abs(At(a, index) - At(b, index))
       + Abs(At(a, index + 1) - At(b, index + 1))
       + Abs(At(a, index + 2) - At(b, index + 2))
       + SumDiff(a, b, index + 4)

\* calculateSimilarity: the similarity is the fraction num/den; nan is the
\* 0/0 the code computes for two empty bitmaps.
calculateSimilarity(a, b) ==
  IF Len(a) # Len(b) THEN [nan |-> FALSE, num |-> 0, den |-> 1]
  ELSE IF Len(a) = 0 THEN [nan |-> TRUE, num |-> 0, den |-> 1]
  ELSE LET den == Len(a) * 765
           num == den - 4 * SumDiff(a, b, 1)
       IN [nan |-> FALSE, num |-> Max(0, Min(den, num)), den |-> den]

\* similarity > policy.similarityThreshold (a comparison with NaN is false)
SimilarityAbove(sim, thr) ==
  ~sim.nan /\ sim.num * thr.den > thr.num * sim.den

\* A selection loop that compares each frame with its predecessor in the input.
RECURSIVE SelectLoopPredecessor(_, _, _, _, _)
SelectLoopPredecessor(frames, policy, k, selected, lastKept) ==
  IF k > Len(frames) THEN selected
  ELSE LET frame == frames[k]
           skip == /\ frame.descriptor.delayMs < policy.minIntervalMs
                   /\ SimilarityAbove(calculateSimilarity(lastKept.bitmap, frame.bitmap),
                                      policy.similarityThreshold)
       IN IF skip THEN SelectLoopPredecessor(frames, policy, k + 1, selected, frame)
          ELSE SelectLoopPredecessor(frames, policy, k + 1, Append(selected, frame), frame)

\* The loop of decimateFrames from frame k on, given the frames selected and
\* the frame last kept.
RECURSIVE SelectLoop(_, _, _, _, _)
SelectLoop(frames, policy, k, selected, lastKept) ==
  IF k > Len(frames) THEN selected
  ELSE LET frame == frames[k]
           skip == /\ frame.descriptor.delayMs < policy.minIntervalMs
                   /\ SimilarityAbove(calculateSimilarity(lastKept.bitmap, frame.bitmap),
                                      policy.similarityThreshold)
       IN IF skip THEN SelectLoop(frames, policy, k + 1, selected, lastKept)
          ELSE SelectLoop(frames, policy, k + 1, Append(selected, frame), frame)

\* A decimator without the final-frame rule.
decimateFramesLoopOnly(frames, policy) ==
  IF Len(frames) = 0 THEN frames
  ELSE SelectLoop(frames, policy, 2, <<frames[1]>>, frames[1])

\* A decimator that appends the final frame whatever was kept.
decimateFramesAppendAlways(frames, policy) ==
  IF Len(frames) = 0 THEN frames
  ELSE Append(SelectLoop(frames, policy, 2, <<frames[1]>>, frames[1]),
              frames[Len(frames)])

\* decimateFrames: frames are compared by identity, which is the descriptor
\* index of a decoded frame.
decimateFrames(frames, policy) ==
  IF Len(frames) = 0 THEN frames
  ELSE LET selected == SelectLoop(frames, policy, 2, <<frames[1]>>, frames[1])
           lastFrame == frames[Len(frames)]
       IN IF selected[Len(selected)].descriptor.index # lastFrame.descriptor.index
          THEN Append(selected, lastFrame)
          ELSE selected

(***************************************************************************)
(* Jobs.  A job is the RenderJob the caller passes to render; its id is    *)
(* unique (the callers draw it with randomUUID).                           *)
(***************************************************************************)
DecimationPolicy ==
  [enabled |-> TRUE, minIntervalMs |-> 16,
   similarityThreshold |-> [num |-> 985, den |-> 1000]]

Profiles ==
  { [pipeline |-> "fast", container |-> "mp4", codec |-> "h264", enableAlpha |-> FALSE],
    [pipeline |-> "quality", container |-> "webm", codec |-> "vp9", enableAlpha |-> FALSE] }

\* metadata: frameCount, metadataFrameRate, metadataWidth, metadataHeight;
\* options.configuration: width, height (dimensions), frameRate, container, ...
JobInputsOver(sourceTypes, frameCounts, profiles, keys, posters) ==
  { [sourceType |-> st, frameCount |-> n, frameRate |-> 50, delayMs |-> 20,
     metadataFrameRate |-> 50, metadataWidth |-> 64, metadataHeight |-> 48,
     width |-> 64, height |-> 48,
     pipeline |-> pr.pipeline, container |-> pr.container, codec |-> pr.codec,
     enableAlpha |-> pr.enableAlpha, cacheKey |-> k, producePosterFrame |-> pp,
     posterFormat |-> "png", frameDecimation |-> DecimationPolicy] :
       st \in sourceTypes, n \in frameCounts, pr \in profiles, k \in keys, pp \in posters }

\* Renders without a cache key, every source kind on both pipelines.
CodecInputs ==
  JobInputsOver({"gif", "video", "frameSequence"}, 1..MaxFrames, Profiles, {NoKey}, BOOLEAN)
\* Frame-sequence renders, with and without a cache key: the quality path
\* through the worker pool.
PoolInputs ==
  JobInputsOver({"frameSequence"}, 1..MaxFrames, Profiles, {NoKey, "k1"}, {FALSE})
\* Renders with and without a cache key on the fast and the quality path.
CacheInputs ==
  { in \in JobInputsOver({"gif", "frameSequence"}, {1}, Profiles, {NoKey} \cup CacheKeys, {FALSE}) :
      in.sourceType = "gif" <=> in.pipeline = "fast" }

\* Every combination the configuration schema admits of pipeline, container,
\* codec and enableAlpha.
AllProfiles ==
  [pipeline : {"fast", "quality"}, container : {"mp4", "webm"},
   codec : {"h264", "h265", "vp9"}, enableAlpha : BOOLEAN]
FrameRates == {24, 30, 60}
\* Renders of every source kind under every profile and frame rate.
PipelineInputs ==
  { [in EXCEPT !.frameRate = fr] :
      in \in JobInputsOver({"gif", "apng", "video", "frameSequence"}, 1..MaxFrames, AllProfiles,
                           {NoKey}, BOOLEAN),
      fr \in FrameRates }

NoJob == [id |-> 0]
MakeJob(in, id) ==
  [id |-> id, sourceType |-> in.sourceType, frameCount |-> in.frameCount,
   frameRate |-> in.frameRate, delayMs |-> in.delayMs, pipeline |-> in.pipeline,
   metadataFrameRate |-> in.metadataFrameRate, metadataWidth |-> in.metadataWidth,
   metadataHeight |-> in.metadataHeight, width |-> in.width, height |-> in.height,
   container |-> in.container, codec |-> in.codec, enableAlpha |-> in.enableAlpha,
   cacheKey |-> in.cacheKey, producePosterFrame |-> in.producePosterFrame,
   posterFormat |-> in.posterFormat, frameDecimation |-> in.frameDecimation]

\* The frames the source of a job holds: what its uri serves, or source.frames.
SourceFrames(j) == [i \in 1..j.frameCount |-> Bitmap(j.id, i)]

\* A pipeline decision that does not look at enableAlpha.
shouldUseFastPipelineAnyAlpha(j) ==
  j.pipeline = "fast" /\ j.sourceType # "frameSequence"
    /\ j.container = "mp4" /\ j.codec = "h264"

shouldUseFastPipeline(j) ==
  IF j.pipeline # "fast" THEN FALSE
  ELSE IF j.sourceType = "frameSequence" THEN FALSE
  ELSE LET prefersMp4 == j.container = "mp4" /\ j.codec = "h264"
           alphaRequired == j.enableAlpha
       IN prefersMp4 /\ ~alphaRequired

\* A mapping that answers video/mp4 for every container.
resolveMimeTypeMp4(container) == "video/mp4"

resolveMimeType(container) == IF container = "mp4" THEN "video/mp4" ELSE "video/webm"

(***************************************************************************)
(* Stills and videos.  A PNG is the bitmap it encodes; a video is the      *)
(* byte sequence of its frames.  Of the timing metrics of an outcome, all  *)
(* differences of readings of the one clock, totalTimeMs is kept.          *)
(***************************************************************************)
Png(bitmap) == [png |-> bitmap]

RECURSIVE Flatten(_)
Flatten(bitmaps) ==
  IF Len(bitmaps) = 0 THEN <<>> ELSE Head(bitmaps) \o Flatten(Tail(bitmaps))

(***************************************************************************)
(* State.                                                                  *)
(***************************************************************************)
VARIABLES
  pc,               \* per call: where the render call is suspended
  job,              \* per call: the RenderJob
  local,            \* per call: the locals of render that live across awaits
  result,           \* per call: the outcome returned or the error thrown
  nextId,           \* the id the next job gets
  now,              \* the clock (performance.now, Date.now)
  ffmpeg,           \* this.ffmpeg is set
  loadState,        \* the codec runtime: "unloaded", "loading", "loaded", "failed"
  created,          \* history: number of createFFmpeg calls
  earlyUse,         \* history: an FS operation or run was issued before load completed
  vfs,              \* the codec runtime's file system
  cache,            \* this.cache
  lastStored,       \* history: per cache key, the outcome of the last cache.set
  roundRobinIndex,  \* FrameProcessorPool.roundRobinIndex
  workers,          \* per worker: listeners, message queues, thread alive
  destroyed,        \* history: FrameProcessorPool.destroy has run
  arg,              \* the arguments of a function applied on its own; with
                    \* failing unlinks, the kinds of path whose unlink throws
  ret               \* what that function returned

vars == <<pc, job, local, result, nextId, now, ffmpeg, loadState, created, earlyUse,
          vfs, cache, lastStored, roundRobinIndex, workers, destroyed, arg, ret>>
serviceVars == <<pc, job, local, result, nextId, now, ffmpeg, loadState, created,
                 earlyUse, vfs, cache, lastStored, roundRobinIndex, workers, destroyed>>
fnVars == <<arg, ret>>
codecVars == <<ffmpeg, loadState, created>>
poolVars == <<roundRobinIndex, workers, destroyed>>

(***************************************************************************)
(* The codec runtime's virtual file system: a function from the paths      *)
(* present to [data, writer]; writer is the id of the job that put the     *)
(* file there (history, not read by the program).                          *)
(***************************************************************************)
Path(kind, id, n, ext) == [kind |-> kind, id |-> id, n |-> n, ext |-> ext]
InputName(j) == Path("input", j.id, 0, "")
OutputName(j) == Path("output", j.id, 0, j.container)
PosterName(j) == Path("poster", j.id, 0, j.posterFormat)
DecodeFrameName(j, index) == Path("frame", j.id, index, "png")
EncodeFrameName(index) == Path("frame", 0, index, "png")

(***************************************************************************)
(* The argument vectors of the codec runs.  Of a vector the model keeps    *)
(* the file names, the rates, the encoder and the scale filter.            *)
(***************************************************************************)
maxWidth == 720
maxHeight == 720
\* renderConfigurationSchema: dimensions.width <= 1280, dimensions.height <= 720
schemaMaxWidth == 1280
schemaMaxHeight == 720

\* Math.round(p / q) for p >= 0, q > 0.  The quotient is computed in floating
\* point, so one that is exactly halfway may land on either side: tie = 0
\* rounds it up (the exact Math.round), tie = 1 rounds it down.
Round(p, q, tie) == (2 * p + q - tie) \div (2 * q)
Ties == {0, 1}

\* A makeEven that only raises the value to 2.
makeEvenKeepOdd(value) == Max(2, value)

makeEven(value) ==
  LET rounded == Max(2, value)
  IN IF rounded % 2 = 0 THEN rounded ELSE rounded - 1

deriveTargetDimensions(j, tie) ==
  LET aspectRatio == IF j.width > 0 /\ j.height > 0
                     THEN [num |-> j.width, den |-> j.height]
                     ELSE [num |-> j.metadataWidth, den |-> j.metadataHeight]
      width1 == Min(j.width, maxWidth)
      height1 == Round(width1 * aspectRatio.den, aspectRatio.num, tie)
      over == height1 > maxHeight
      height2 == IF over THEN Min(j.height, maxHeight) ELSE height1
      width2 == IF over THEN Round(height2 * aspectRatio.num, aspectRatio.den, tie)
                ELSE width1
  IN [width |-> makeEven(Min(width2, j.width)),
      height |-> makeEven(Min(height2, j.height))]

buildFastFfmpegArgs(j, inputName, outputName, tie) ==
  [input |-> inputName,
   fps |-> Min(j.frameRate, 30),
   scale |-> deriveTargetDimensions(j, tie),
   encoder |-> IF j.codec = "h265" THEN "libx265" ELSE "libx264",
   output |-> outputName]

buildFfmpegArgs(j, outputName, tie) ==
  [input |-> "frame-%05d.png",
   framerate |-> j.frameRate,
   encoder |-> IF j.container = "mp4"
               THEN (IF j.codec = "h265" THEN "libx265" ELSE "libx264")
               ELSE (IF j.codec = "vp9" THEN "libvpx-vp9" ELSE "libvpx"),
   scale |-> deriveTargetDimensions(j, tie),
   output |-> outputName]

FSwriteFile(v, p, data, owner) ==
  [q \in DOMAIN v \cup {p} |-> IF q = p THEN [data |-> data, writer |-> owner] ELSE v[q]]
\* FS('unlink', p) throws although the file is there.
FSunlinkThrows(p) == arg # None /\ p.kind \in arg.unlinkThrows
\* FS('unlink', p) in a try/catch: a throwing unlink (the file is missing, or
\* the file system refuses) leaves the files as they are.
FSunlink(v, p) == IF FSunlinkThrows(p) THEN v ELSE [q \in DOMAIN v \ {p} |-> v[q]]
FSunlinkAll(v, ps) == [q \in DOMAIN v \ {p \in ps : ~FSunlinkThrows(p)} |-> v[q]]

(***************************************************************************)
(* MemoryCache over LRUCache{max, ttl}: a sequence of entries, least       *)
(* recently used first.                                                    *)
(***************************************************************************)
\* A cache whose entries never expire.
IsStaleNever(e, t) == FALSE

\* ttl: an entry is stale once its age exceeds the ttl.
IsStale(e, t) == t - e.createdAt > cacheTtlMs
KeyIndex(ch, k) == IF \E i \in 1..Len(ch) : ch[i].key = k
                   THEN CHOOSE i \in 1..Len(ch) : ch[i].key = k ELSE 0
Without(ch, i) == SubSeq(ch, 1, i - 1) \o SubSeq(ch, i + 1, Len(ch))

\* A get that returns the entry without marking it used.
CacheGetPeek(ch, k, t) ==
  LET i == KeyIndex(ch, k)
  IN IF i = 0 THEN [cache |-> ch, hit |-> FALSE, value |-> None]
     ELSE IF IsStale(ch[i], t) THEN [cache |-> Without(ch, i), hit |-> FALSE, value |-> None]
     ELSE [cache |-> ch, hit |-> TRUE, value |-> ch[i].value]

\* A get that also refreshes the age of the entry it returns.
CacheGetRefresh(ch, k, t) ==
  LET i == KeyIndex(ch, k)
  IN IF i = 0 THEN [cache |-> ch, hit |-> FALSE, value |-> None]
     ELSE IF IsStale(ch[i], t) THEN [cache |-> Without(ch, i), hit |-> FALSE, value |-> None]
     ELSE [cache |-> Append(Without(ch, i), [ch[i] EXCEPT !.createdAt = t]),
           hit |-> TRUE, value |-> ch[i].value]

\* get: [cache, hit, value]
CacheGet(ch, k, t) ==
  LET i == KeyIndex(ch, k)
  IN IF i = 0 THEN [cache |-> ch, hit |-> FALSE, value |-> None]
     ELSE IF IsStale(ch[i], t) THEN [cache |-> Without(ch, i), hit |-> FALSE, value |-> None]
     ELSE [cache |-> Append(Without(ch, i), ch[i]), hit |-> TRUE, value |-> ch[i].value]

\* A set that leaves the entry of a key already present as it is.
MemoryCacheSetKeepFirst(ch, k, v, t, maxEntries) ==
  LET i == KeyIndex(ch, k)
      e == [key |-> k, value |-> v, createdAt |-> t]
  IN IF i # 0 THEN ch
     ELSE IF Len(ch) >= maxEntries THEN Append(Tail(ch), e)
     ELSE Append(ch, e)

\* set on a cache built with max: maxEntries.  The sequence runs from the least
\* to the most recently used entry.
MemoryCacheSet(ch, k, v, t, maxEntries) ==
  LET i == KeyIndex(ch, k)
      e == [key |-> k, value |-> v, createdAt |-> t]
  IN IF i # 0 THEN Append(Without(ch, i), e)
     ELSE IF Len(ch) >= maxEntries THEN Append(Tail(ch), e)
     ELSE Append(ch, e)

\* set on the service's cache.
CacheSet(ch, k, v, t) == MemoryCacheSet(ch, k, v, t, cacheEntries)


IdleLocal == [startedAt |-> 0,
              frames |-> <<>>, pngs |-> <<>>, rejected |-> FALSE,
              video |-> <<>>, touched |-> {}, args |-> None,
              decoded |-> <<>>, produced |-> 0]
IdleWorker == [handlers |-> <<>>, inbox |-> <<>>, outbox |-> <<>>, alive |-> TRUE]

\* The service after its constructor.
InitService ==
  /\ pc = [c \in Calls |-> "idle"]
  /\ job = [c \in Calls |-> NoJob]
  /\ local = [c \in Calls |-> IdleLocal]
  /\ result = [c \in Calls |-> None]
  /\ nextId = 1
  /\ now = 0
  /\ ffmpeg = FALSE
  /\ loadState = "unloaded"
  /\ created = 0
  /\ earlyUse = FALSE
  /\ vfs = <<>>
  /\ cache = <<>>
  /\ lastStored = [k \in CacheKeys |-> None]
  /\ roundRobinIndex = 0
  /\ workers = [w \in Workers |-> IdleWorker]
  /\ destroyed = FALSE

Init == InitService /\ arg = None /\ ret = None

Ready == loadState = "loaded"
RunPcs == {"fastRun", "posterRun", "decodeRun", "encodeRun"}
Running == {c \in Calls : pc[c] \in RunPcs}
Active == {c \in Calls : pc[c] \notin {"idle", "done", "failed"}}
\* The outcome is stored whether or not the job has a cache key.
HasKeyAlways(j) == TRUE

\* if (cacheKey)
HasKey(j) == j.cacheKey # NoKey /\ j.cacheKey # ""

(***************************************************************************)
(* How a render call ends.                                                 *)
(***************************************************************************)
\* render throws after storing what it has under the cache key.
FailStoring(c, code, message) ==
  /\ pc' = [pc EXCEPT ![c] = "failed"]
  /\ result' = [result EXCEPT ![c] = [error |-> code, message |-> message]]
  /\ local' = [local EXCEPT ![c] = IdleLocal]
  /\ cache' = IF job[c].cacheKey \in CacheKeys
              THEN CacheSet(cache, job[c].cacheKey, [fromCache |-> FALSE, error |-> code, message |-> message], now)
              ELSE cache
  /\ UNCHANGED lastStored

\* render throws an error with this code (a plain Error has none: "Error") and
\* message: nothing is stored.
Fail(c, code, message) ==
  /\ pc' = [pc EXCEPT ![c] = "failed"]
  /\ result' = [result EXCEPT ![c] = [error |-> code, message |-> message]]
  /\ local' = [local EXCEPT ![c] = IdleLocal]
  /\ UNCHANGED <<cache, lastStored>>

\* render stores the outcome under the cache key, if any, and returns it.
Finish(c, outcome) ==
  /\ pc' = [pc EXCEPT ![c] = "done"]
  /\ result' = [result EXCEPT ![c] = outcome]
  /\ local' = [local EXCEPT ![c] = IdleLocal]
  /\ IF HasKey(job[c])
     THEN /\ cache' = CacheSet(cache, job[c].cacheKey, outcome, now)
          /\ lastStored' = [lastStored EXCEPT ![job[c].cacheKey] = outcome]
     ELSE UNCHANGED <<cache, lastStored>>

\* A fast outcome whose size counts the frames of the source instead of the
\* bytes of the video.
FastOutcomeFrameCount(j, loc, video, posterFrame, t) ==
  [fromCache |-> FALSE,
   metrics |-> [totalTimeMs |-> t - loc.startedAt, outputSizeBytes |-> j.frameCount],
   result |-> [video |-> video, container |-> j.container,
               mimeType |-> resolveMimeType(j.container),
               frameRate |-> Min(j.frameRate, 30), posterFrame |-> posterFrame]]

\* A fast outcome that reports the configured frame rate.
FastOutcomeConfiguredRate(j, loc, video, posterFrame, t) ==
  [fromCache |-> FALSE,
   metrics |-> [totalTimeMs |-> t - loc.startedAt, outputSizeBytes |-> Len(video)],
   result |-> [video |-> video, container |-> j.container,
               mimeType |-> resolveMimeType(j.container),
               frameRate |-> j.frameRate, posterFrame |-> posterFrame]]

FastOutcome(j, loc, video, posterFrame, t) ==
  [fromCache |-> FALSE,
   metrics |-> [totalTimeMs |-> t - loc.startedAt, outputSizeBytes |-> Len(video)],
   result |-> [video |-> video, container |-> j.container,
               mimeType |-> resolveMimeType(j.container),
               frameRate |-> Min(j.frameRate, 30), posterFrame |-> posterFrame]]

QualityOutcome(j, loc, video, t) ==
  [fromCache |-> FALSE,
   metrics |-> [totalTimeMs |-> t - loc.startedAt, outputSizeBytes |-> Len(video)],
   result |-> [video |-> video, container |-> j.container,
               mimeType |-> resolveMimeType(j.container),
               frameRate |-> j.frameRate,
               posterFrame |-> IF j.producePosterFrame /\ Len(loc.pngs) > 0
                               THEN loc.pngs[1] ELSE None]]

(***************************************************************************)
(* FrameProcessorPool.process and pickWorker.                              *)
(***************************************************************************)
\* A pickWorker that does not advance the index.
pickWorkerSame(rr) == [worker |-> rr, next |-> rr]

pickWorker(rr) == [worker |-> rr, next |-> (rr + 1) % Cardinality(Workers)]

\* process(task): pick the worker, install the handler pair, post the task.
\* A message posted to a terminated worker goes nowhere.
PoolProcess(ws, rr, id, rank, frame) ==
  LET pick == pickWorker(rr)
      w == pick.worker
      msg == [type |-> "processFrame", frameIndex |-> frame.descriptor.index,
              bitmap |-> frame.bitmap]
  IN [rr |-> pick.next,
      workers |-> [ws EXCEPT
         ![w].handlers = Append(@, [id |-> id, rank |-> rank]),
         ![w].inbox = IF ws[w].alive THEN Append(@, msg) ELSE @]]

\* selectedFrames.map(...): every frame is submitted before the first await.
RECURSIVE SubmitAll(_, _, _, _, _)
SubmitAll(ws, rr, id, frames, k) ==
  IF k > Len(frames) THEN [rr |-> rr, workers |-> ws]
  ELSE LET p == PoolProcess(ws, rr, id, k, frames[k])
       IN SubmitAll(p.workers, p.rr, id, frames, k + 1)

\* processFrames up to its await of Promise.all.
StartProcess(c, frames, loc) ==
  LET policy == job[c].frameDecimation
      selectedFrames == IF policy.enabled THEN decimateFrames(frames, policy) ELSE frames
      sub == SubmitAll(workers, roundRobinIndex, job[c].id, selectedFrames, 1)
  IN /\ pc' = [pc EXCEPT ![c] = "process"]
     /\ local' = [local EXCEPT ![c] =
           [loc EXCEPT !.decoded = frames,
                       !.frames = selectedFrames,
                       !.pngs = [i \in 1..Len(selectedFrames) |-> None]]]
     /\ roundRobinIndex' = sub.rr
     /\ workers' = sub.workers
     /\ UNCHANGED <<result, destroyed>>

DecodedFrameOf(index, delayMs, bitmap) ==
  [descriptor |-> [index |-> index, delayMs |-> delayMs, isKeyFrame |-> index = 0],
   bitmap |-> bitmap]

(***************************************************************************)
(* render: cache check and ensureFfmpegLoaded.                             *)
(***************************************************************************)
\* A hit that reports its own timing instead of the stored outcome's.
CachedOutcomeFresh(value) ==
  [value EXCEPT !.fromCache = TRUE, !.metrics.totalTimeMs = 0]

\* { ...cached.value.outcome, fromCache: true }
CachedOutcome(value) == [value EXCEPT !.fromCache = TRUE]

Render(c, in) ==
  /\ pc[c] \in {"idle", "done", "failed"}
  /\ LET j == MakeJob(in, nextId)
         got == IF HasKey(j) THEN CacheGet(cache, j.cacheKey, now)
                ELSE [cache |-> cache, hit |-> FALSE, value |-> None]
     IN /\ job' = [job EXCEPT ![c] = j]
        /\ nextId' = nextId + 1
        /\ cache' = got.cache
        /\ IF got.hit
           THEN /\ pc' = [pc EXCEPT ![c] = "done"]
                /\ result' = [result EXCEPT ![c] = CachedOutcome(got.value)]
                /\ UNCHANGED <<local, codecVars>>
           ELSE /\ local' = [local EXCEPT ![c] = [IdleLocal EXCEPT !.startedAt = now]]
                /\ result' = [result EXCEPT ![c] = None]
                /\ IF ffmpeg
                   THEN /\ pc' = [pc EXCEPT ![c] = "ensured"]
                        /\ UNCHANGED codecVars
                   ELSE /\ pc' = [pc EXCEPT ![c] = "awaitLoad"]
                        /\ ffmpeg' = TRUE
                        /\ created' = created + 1
                        /\ loadState' = "loading"
  /\ UNCHANGED <<now, earlyUse, vfs, lastStored, poolVars>>
  /\ UNCHANGED fnVars

\* ffmpeg.load() resolves.
LoadComplete ==
  /\ loadState = "loading"
  /\ loadState' = "loaded"
  /\ UNCHANGED <<pc, job, local, result, nextId, now, ffmpeg, created, earlyUse,
                 vfs, cache, lastStored, poolVars>>
  /\ UNCHANGED fnVars

\* ffmpeg.load() rejects: the call that awaits it throws; this.ffmpeg stays set.
LoadFail ==
  /\ loadState = "loading"
  /\ loadState' = "failed"
  /\ \E c \in Calls : pc[c] = "awaitLoad" /\ Fail(c, "Error", "ffmpeg.load rejected")
  /\ UNCHANGED <<job, nextId, now, ffmpeg, created, earlyUse, vfs, poolVars>>
  /\ UNCHANGED fnVars

\* render after its await of ensureFfmpegLoaded: the pipeline decision, then the
\* code up to the next await.
AfterEnsure(c) ==
  /\ \/ pc[c] = "ensured"
     \/ pc[c] = "awaitLoad" /\ loadState = "loaded"
  /\ LET j == job[c]
     IN IF shouldUseFastPipeline(j)
        THEN IF ~ffmpeg
             THEN Fail(c, "Error", "FFmpeg has not been initialised") /\ UNCHANGED poolVars
             ELSE /\ pc' = [pc EXCEPT ![c] = "fastFetch"]
                  /\ UNCHANGED <<local, result, cache, lastStored, poolVars>>
        ELSE IF j.sourceType \in {"gif", "apng"}
        THEN /\ pc' = [pc EXCEPT ![c] = "imgFetch"]
             /\ UNCHANGED <<local, result, cache, lastStored, poolVars>>
        ELSE IF j.sourceType = "frameSequence"
        THEN /\ StartProcess(c, [i \in 1..j.frameCount |->
                                   DecodedFrameOf(i - 1, j.delayMs, SourceFrames(j)[i])],
                             local[c])
             /\ UNCHANGED <<cache, lastStored>>
        ELSE IF ~ffmpeg
             THEN Fail(c, "Error", "FFmpeg must be initialised before decoding video") /\ UNCHANGED poolVars
             ELSE /\ pc' = [pc EXCEPT ![c] = "vidFetch"]
                  /\ UNCHANGED <<local, result, cache, lastStored, poolVars>>
  /\ UNCHANGED <<job, nextId, now, codecVars, earlyUse, vfs>>
  /\ UNCHANGED fnVars

(***************************************************************************)
(* renderFastPipeline.                                                     *)
(***************************************************************************)
\* downloadSource returns (fetch, arrayBuffer, fetchFile); then the input is
\* written and the transcode run is started.
FastFetchDone(c, ok) ==
  /\ pc[c] = "fastFetch"
  /\ LET j == job[c]
     IN IF ~ok
        THEN Fail(c, "animated-renderer.download-failed", "Failed to download animation source") /\ UNCHANGED <<vfs, earlyUse>>
        ELSE IF ~Ready
        THEN Fail(c, "Error", "ffmpeg.wasm is not ready") /\ earlyUse' = TRUE /\ UNCHANGED vfs
        ELSE /\ vfs' = FSwriteFile(vfs, InputName(j), SourceFrames(j), j.id)
             /\ pc' = [pc EXCEPT ![c] = "fastRun"]
             /\ \E tie \in Ties :
                  local' = [local EXCEPT
                     ![c].touched = @ \cup {InputName(j)},
                     ![c].args = buildFastFfmpegArgs(j, InputName(j), OutputName(j), tie)]
             /\ UNCHANGED <<result, cache, lastStored, earlyUse>>
  /\ UNCHANGED <<job, nextId, now, codecVars, poolVars>>
  /\ UNCHANGED fnVars

\* The files left once the fast pipeline's safeUnlink calls have run.
FastCleanup(v, j) == FSunlinkAll(v, {InputName(j), OutputName(j)})

\* The transcode run returns.  The codec writes the output from the input file;
\* then readFile, and either the poster run starts or the outcome is returned.
FastRunDone(c, ok) ==
  /\ pc[c] = "fastRun"
  /\ LET j == job[c]
         hasInput == InputName(j) \in DOMAIN vfs
         video == IF hasInput THEN Flatten(vfs[InputName(j)].data) ELSE <<>>
         written == IF hasInput THEN FSwriteFile(vfs, OutputName(j), video, j.id) ELSE vfs
         loc == [local[c] EXCEPT !.video = video,
                                 !.touched = @ \cup {InputName(j), OutputName(j)},
                                 !.args = [input |-> OutputName(j), frames |-> 1,
                                           output |-> PosterName(j)]]
     IN IF ~ok \/ ~hasInput
        THEN Fail(c, "Error", "ffmpeg run or readFile failed") /\ UNCHANGED vfs
        ELSE IF j.producePosterFrame
        THEN /\ pc' = [pc EXCEPT ![c] = "posterRun"]
             /\ vfs' = written
             /\ local' = [local EXCEPT ![c] = loc]
             /\ UNCHANGED <<result, cache, lastStored>>
        ELSE /\ vfs' = FastCleanup(written, j)
             /\ Finish(c, FastOutcome(j, loc, video, None, now))
  /\ UNCHANGED <<job, nextId, now, codecVars, earlyUse, poolVars>>
  /\ UNCHANGED fnVars

\* A poster extraction whose failure makes the render fail.
PosterRunDoneFatal(c, ok) ==
  /\ pc[c] = "posterRun"
  /\ IF ok
     THEN /\ vfs' = FastCleanup(vfs, job[c])
          /\ Finish(c, FastOutcome(job[c], local[c], local[c].video,
                                   Png(SubSeq(local[c].video, 1, 4)), now))
     ELSE Fail(c, "Error", "poster extraction failed") /\ UNCHANGED vfs
  /\ UNCHANGED <<job, nextId, now, codecVars, earlyUse, poolVars>>
  /\ UNCHANGED fnVars

\* extractPosterFrame's run returns (~ok: the run throws, or writes no poster
\* so that the read throws): the poster is read or given up, the poster file
\* is unlinked in finally, then input and output are unlinked.
PosterRunDone(c, ok) ==
  /\ pc[c] = "posterRun"
  /\ LET j == job[c]
         hasOutput == OutputName(j) \in DOMAIN vfs
         posterFrame == IF ok /\ hasOutput
                        THEN Png(SubSeq(vfs[OutputName(j)].data, 1, 4)) ELSE None
         written == IF ok /\ hasOutput
                    THEN FSwriteFile(vfs, PosterName(j), posterFrame, j.id) ELSE vfs
     IN /\ vfs' = FastCleanup(FSunlink(written, PosterName(j)), j)
        /\ Finish(c, FastOutcome(j, local[c], local[c].video, posterFrame, now))
  /\ UNCHANGED <<job, nextId, now, codecVars, earlyUse, poolVars>>
  /\ UNCHANGED fnVars

(***************************************************************************)
(* decodeSource.                                                           *)
(***************************************************************************)
\* decodeImageSequence after its fetch: parseGIF, decompressFrames, map.
ImgFetchDone(c, ok, parseOk) ==
  /\ pc[c] = "imgFetch"
  /\ LET j == job[c]
     IN IF ~ok
        THEN Fail(c, "animated-renderer.download-failed", "Failed to download animation source") /\ UNCHANGED poolVars
        ELSE IF ~parseOk
        THEN Fail(c, "Error", "GIF parse failed") /\ UNCHANGED poolVars
        ELSE /\ StartProcess(c, [i \in 1..j.frameCount |->
                                   DecodedFrameOf(i - 1, Max(10, j.delayMs), SourceFrames(j)[i])],
                             local[c])
             /\ UNCHANGED <<cache, lastStored>>
  /\ UNCHANGED <<job, nextId, now, codecVars, earlyUse, vfs>>
  /\ UNCHANGED fnVars

\* decodeVideo after its fetch: the input is written, the decode run started.
VidFetchDone(c, ok) ==
  /\ pc[c] = "vidFetch"
  /\ LET j == job[c]
     IN IF ~ok
        THEN Fail(c, "Error", "Unable to fetch video source") /\ UNCHANGED <<vfs, earlyUse>>
        ELSE IF ~Ready
        THEN Fail(c, "Error", "ffmpeg.wasm is not ready") /\ earlyUse' = TRUE /\ UNCHANGED vfs
        ELSE /\ vfs' = FSwriteFile(vfs, InputName(j), SourceFrames(j), j.id)
             /\ pc' = [pc EXCEPT ![c] = "decodeRun"]
             /\ local' = [local EXCEPT
                   ![c].touched = @ \cup {InputName(j)},
                   ![c].args = [input |-> InputName(j),
                                scale |-> [width |-> j.metadataWidth,
                                           height |-> j.metadataHeight],
                                output |-> "frame-{id}-%05d.png"]]
             /\ UNCHANGED <<result, cache, lastStored, earlyUse>>
  /\ UNCHANGED <<job, nextId, now, codecVars, poolVars>>
  /\ UNCHANGED fnVars

\* cleanupIntermediateFiles: input, then frames 1.. up to frameCount + 2,
\* stopping at the first frame that is not there.
RECURSIVE CleanupFrames(_, _, _, _)
CleanupFrames(v, j, index, last) ==
  IF \/ index > last
     \/ DecodeFrameName(j, index) \notin DOMAIN v
     \/ FSunlinkThrows(DecodeFrameName(j, index))
  THEN v
  ELSE CleanupFrames(FSunlink(v, DecodeFrameName(j, index)), j, index + 1, last)

cleanupIntermediateFiles(v, j) ==
  CleanupFrames(FSunlink(v, InputName(j)), j, 1, j.frameCount + 2)

\* A read loop that puts an empty frame where a file is missing.
RECURSIVE ReadFramesPadded(_, _, _)
ReadFramesPadded(v, j, index) ==
  IF index > j.frameCount THEN <<>>
  ELSE <<DecodedFrameOf(index - 1, 1000 \div j.metadataFrameRate,
                        IF DecodeFrameName(j, index) \in DOMAIN v
                        THEN v[DecodeFrameName(j, index)].data.png ELSE <<>>)>>
         \o ReadFramesPadded(v, j, index + 1)

\* decodeVideo's read loop: frames index..frameCount are read and parsed; the
\* first readFile that throws ends the loop.
RECURSIVE ReadFrames(_, _, _)
ReadFrames(v, j, index) ==
  IF index > j.frameCount \/ DecodeFrameName(j, index) \notin DOMAIN v THEN <<>>
  ELSE <<DecodedFrameOf(index - 1, 1000 \div j.metadataFrameRate,
                        v[DecodeFrameName(j, index)].data.png)>>
         \o ReadFrames(v, j, index + 1)

\* The decode run returns having written m PNGs; frames 1..frameCount are read
\* until one is missing and parsed, then the intermediate files are cleaned up.
DecodeRunDone(c, ok, m, pngOk) ==
  /\ pc[c] = "decodeRun"
  /\ m \in 0..(job[c].frameCount + ExtraProduced)
  /\ LET j == job[c]
         produced == [q \in DOMAIN vfs \cup {DecodeFrameName(j, i) : i \in 1..m} |->
                        IF \E i \in 1..m : q = DecodeFrameName(j, i)
                        THEN [data |-> Png(Bitmap(j.id, q.n)), writer |-> j.id]
                        ELSE vfs[q]]
         decodedFrames == ReadFrames(produced, j, 1)
         loc == [local[c] EXCEPT !.produced = m, !.touched =
                   @ \cup {InputName(j)}
                     \cup {DecodeFrameName(j, i) : i \in 1..Max(m, Min(m + 1, j.frameCount + 2))}]
     IN IF ~ok
        THEN Fail(c, "Error", "ffmpeg run failed") /\ UNCHANGED <<vfs, poolVars>>
        ELSE IF ~pngOk /\ decodedFrames # <<>>
        THEN Fail(c, "Error", "PNG parse failed") /\ vfs' = produced /\ UNCHANGED poolVars
        ELSE /\ vfs' = cleanupIntermediateFiles(produced, j)
             /\ StartProcess(c, decodedFrames, loc)
             /\ UNCHANGED <<cache, lastStored>>
  /\ UNCHANGED <<job, nextId, now, codecVars, earlyUse>>
  /\ UNCHANGED fnVars

(***************************************************************************)
(* The worker threads and the pool's listeners.                            *)
(***************************************************************************)
\* The worker's message handler runs on the oldest posted task and posts the
\* reply (the operations list the renderer passes is empty).
WorkerProcess(w) ==
  /\ workers[w].alive
  /\ workers[w].inbox # <<>>
  /\ LET msg == Head(workers[w].inbox)
         reply == [type |-> "processedFrame", frameIndex |-> msg.frameIndex,
                   png |-> Png(msg.bitmap)]
     IN workers' = [workers EXCEPT ![w].inbox = Tail(@),
                                   ![w].outbox = Append(@, reply)]
  /\ UNCHANGED <<pc, job, local, result, nextId, now, codecVars, earlyUse, vfs, cache,
                 lastStored, roundRobinIndex, destroyed>>
  /\ UNCHANGED fnVars

\* The worker's handler throws on a task: the thread dies and the host gets an
\* 'error' event after the replies already posted.
WorkerCrash(w) ==
  /\ workers[w].alive
  /\ workers[w].inbox # <<>>
  /\ workers' = [workers EXCEPT ![w].inbox = <<>>,
                                ![w].alive = FALSE,
                                ![w].outbox = Append(@, [type |-> "error"])]
  /\ UNCHANGED <<pc, job, local, result, nextId, now, codecVars, earlyUse, vfs, cache,
                 lastStored, roundRobinIndex, destroyed>>
  /\ UNCHANGED fnVars

HandlersFor(hs, id) == {hs[i].rank : i \in {n \in 1..Len(hs) : hs[n].id = id}}

\* Listeners that settle on whatever the worker emits.
SettlesAnyMessage(msg) == TRUE

\* The events on which a registered pair acts: onError on 'error', onMessage on
\* a message of type processedFrame; onMessage returns at once on any other.
Settles(msg) == msg.type \in {"processedFrame", "error"}

\* The host emits the worker's next event.  Every listener registered on the
\* worker for that event is called: each onMessage resolves its promise with
\* the reply's png and detaches its pair, each onError rejects and detaches.
DeliverTo(w) ==
  /\ workers[w].outbox # <<>>
  /\ LET msg == Head(workers[w].outbox)
         hs == workers[w].handlers
     IN /\ workers' = [workers EXCEPT ![w].outbox = Tail(@),
                                      ![w].handlers = IF Settles(msg) THEN <<>> ELSE @]
        /\ local' = [c \in Calls |->
             IF pc[c] # "process" \/ ~Settles(msg) THEN local[c]
             ELSE IF msg.type # "error"
             THEN [local[c] EXCEPT !.pngs = [r \in DOMAIN local[c].pngs |->
                      IF r \in HandlersFor(hs, job[c].id) THEN msg.png ELSE local[c].pngs[r]]]
             ELSE [local[c] EXCEPT !.rejected = @ \/ HandlersFor(hs, job[c].id) # {}]]
  /\ UNCHANGED <<pc, job, result, nextId, now, codecVars, earlyUse, vfs, cache,
                 lastStored, roundRobinIndex, destroyed>>

Deliver(w) == DeliverTo(w) /\ UNCHANGED fnVars

\* destroy: a shutdown message to every worker, then terminate.  The tasks
\* not yet handled are lost; replies already posted may or may not arrive.
Destroy(keepReplies) ==
  /\ ~destroyed
  /\ destroyed' = TRUE
  /\ workers' = [w \in Workers |->
        [workers[w] EXCEPT !.alive = FALSE, !.inbox = <<>>,
                           !.outbox = IF keepReplies THEN @ ELSE <<>>]]
  /\ UNCHANGED <<pc, job, local, result, nextId, now, codecVars, earlyUse, vfs, cache,
                 lastStored, roundRobinIndex>>
  /\ UNCHANGED fnVars

(***************************************************************************)
(* encode.                                                                 *)
(***************************************************************************)
RECURSIVE WriteFrames(_, _, _, _)
WriteFrames(v, pngs, id, k) ==
  IF k > Len(pngs) THEN v
  ELSE WriteFrames(FSwriteFile(v, EncodeFrameName(k - 1), pngs[k], id), pngs, id, k + 1)

\* Promise.all over the submissions settles: it rejects with the first
\* rejection, or resolves when every submission has; then encode writes the
\* frames and starts the run.
AfterProcess(c) ==
  /\ pc[c] = "process"
  /\ LET j == job[c]
         pngs == local[c].pngs
     IN \/ /\ local[c].rejected
           /\ Fail(c, "Error", "worker error")
           /\ UNCHANGED <<vfs, earlyUse>>
        \/ /\ ~local[c].rejected
           /\ \A r \in DOMAIN pngs : pngs[r] # None
           /\ IF ~ffmpeg \/ ~Ready
              THEN Fail(c, "Error", IF ~ffmpeg THEN "FFmpeg has not been initialised"
                                        ELSE "ffmpeg.wasm is not ready")
                   /\ earlyUse' = TRUE /\ UNCHANGED vfs
              ELSE /\ vfs' = WriteFrames(vfs, pngs, j.id, 1)
                   /\ pc' = [pc EXCEPT ![c] = "encodeRun"]
                   /\ \E tie \in Ties :
                        local' = [local EXCEPT
                           ![c].touched = @ \cup {EncodeFrameName(k - 1) : k \in DOMAIN pngs},
                           ![c].args = buildFfmpegArgs(j, OutputName(j), tie)]
                   /\ UNCHANGED <<result, cache, lastStored, earlyUse>>
  /\ UNCHANGED <<job, nextId, now, codecVars, poolVars>>
  /\ UNCHANGED fnVars

\* What the codec reads for the pattern frame-%05d.png: the files of rank
\* 0, 1, ... up to the first rank that is missing.
RECURSIVE PatternFrames(_, _)
PatternFrames(v, k) ==
  IF EncodeFrameName(k) \notin DOMAIN v THEN <<>>
  ELSE <<v[EncodeFrameName(k)].data.png>> \o PatternFrames(v, k + 1)

\* An encode whose render fails when one of its unlinks throws.
EncodeRunDoneUnlinkFatal(c, ok) ==
  /\ pc[c] = "encodeRun"
  /\ LET j == job[c]
         inputs == PatternFrames(vfs, 0)
         video == Flatten(inputs)
         written == FSwriteFile(vfs, OutputName(j), video, j.id)
         paths == {EncodeFrameName(k - 1) : k \in DOMAIN local[c].pngs} \cup {OutputName(j)}
     IN IF ~ok \/ inputs = <<>>
        THEN Fail(c, "Error", "ffmpeg run or readFile failed") /\ UNCHANGED vfs
        ELSE IF \E q \in paths : FSunlinkThrows(q) \/ q \notin DOMAIN written
        THEN Fail(c, "Error", "unlink failed") /\ vfs' = FSunlinkAll(written, paths)
        ELSE /\ vfs' = FSunlinkAll(written, paths)
             /\ Finish(c, QualityOutcome(j, local[c], video, now))
  /\ UNCHANGED <<job, nextId, now, codecVars, earlyUse, poolVars>>
  /\ UNCHANGED fnVars

\* The encode run returns: the output is read, the frames and the output are
\* unlinked and render assembles and stores the outcome.
EncodeRunDone(c, ok) ==
  /\ pc[c] = "encodeRun"
  /\ LET j == job[c]
         inputs == PatternFrames(vfs, 0)
         video == Flatten(inputs)
         written == FSwriteFile(vfs, OutputName(j), video, j.id)
         cleaned == FSunlinkAll(written,
                       {EncodeFrameName(k - 1) : k \in DOMAIN local[c].pngs}
                         \cup {OutputName(j)})
     IN IF ~ok \/ inputs = <<>>
        THEN Fail(c, "Error", "ffmpeg run or readFile failed") /\ UNCHANGED vfs
        ELSE /\ vfs' = cleaned
             /\ Finish(c, QualityOutcome(j, local[c], video, now))
  /\ UNCHANGED <<job, nextId, now, codecVars, earlyUse, poolVars>>
  /\ UNCHANGED fnVars

(***************************************************************************)
(* The clock advances.                                                     *)
(***************************************************************************)
Tick ==
  /\ now < MaxTime
  /\ now' = now + 1
  /\ UNCHANGED <<pc, job, local, result, nextId, codecVars, earlyUse, vfs, cache,
                 lastStored, poolVars>>
  /\ UNCHANGED fnVars

(***************************************************************************)
(* Specifications.  The actions are the same; a specification fixes the    *)
(* jobs the callers submit and which events of the environment occur.      *)
(***************************************************************************)
\* Concurrent renders on the codec runtime and its file system.
NextCodec ==
  \/ \E c \in Calls, in \in CodecInputs : nextId <= CodecRenders /\ Render(c, in)
  \/ LoadComplete
  \/ LoadFail
  \/ \E c \in Calls : AfterEnsure(c)
  \/ \E c \in Calls, ok \in BOOLEAN : FastFetchDone(c, ok)
  \/ \E c \in Calls, ok \in BOOLEAN : FastRunDone(c, ok)
  \/ \E c \in Calls, ok \in BOOLEAN : PosterRunDone(c, ok)
  \/ \E c \in Calls, ok \in BOOLEAN, parseOk \in BOOLEAN : ImgFetchDone(c, ok, parseOk)
  \/ \E c \in Calls, ok \in BOOLEAN : VidFetchDone(c, ok)
  \/ \E c \in Calls, ok \in BOOLEAN, m \in 0..(MaxFrames + ExtraProduced), pngOk \in BOOLEAN :
        DecodeRunDone(c, ok, m, pngOk)
  \/ \E w \in Workers : WorkerProcess(w)
  \/ \E w \in Workers : Deliver(w)
  \/ \E c \in Calls : AfterProcess(c)
  \/ \E c \in Calls, ok \in BOOLEAN : EncodeRunDone(c, ok)

SpecCodec == Init /\ [][NextCodec]_vars

\* Renders through the worker pool, with worker failures and pool shutdown.
NextPool ==
  \/ \E c \in Calls, in \in PoolInputs : nextId <= PoolRenders /\ Render(c, in)
  \/ LoadComplete
  \/ LoadFail
  \/ \E c \in Calls : AfterEnsure(c)
  \/ \E w \in Workers : WorkerProcess(w)
  \/ \E w \in Workers : WorkerCrash(w)
  \/ \E w \in Workers : Deliver(w)
  \/ \E keepReplies \in BOOLEAN : Destroy(keepReplies)
  \/ \E c \in Calls : AfterProcess(c)
  \/ \E c \in Calls, ok \in BOOLEAN : EncodeRunDone(c, ok)

SpecPool == Init /\ [][NextPool]_vars

\* Renders with cache keys while the clock advances.
NextCache ==
  \/ \E c \in Calls, in \in CacheInputs : nextId <= CacheRenders /\ Render(c, in)
  \/ LoadComplete
  \/ LoadFail
  \/ \E c \in Calls : AfterEnsure(c)
  \/ \E c \in Calls, ok \in BOOLEAN : FastFetchDone(c, ok)
  \/ \E c \in Calls, ok \in BOOLEAN : FastRunDone(c, ok)
  \/ \E w \in Workers : WorkerProcess(w)
  \/ \E w \in Workers : Deliver(w)
  \/ \E c \in Calls : AfterProcess(c)
  \/ \E c \in Calls, ok \in BOOLEAN : EncodeRunDone(c, ok)
  \/ Tick

SpecCache == Init /\ [][NextCache]_vars

(***************************************************************************)
(* Functions applied on their own: the arguments are drawn initially, the  *)
(* one action applies the function.                                        *)
(***************************************************************************)
\* Decoded frames as decodeSource builds them: frame k has descriptor index
\* k - 1; delays below and above the policy's interval; bitmaps that are
\* equal, nearly equal, different and empty.
\* Bitmaps of which the first and the third are each more than 0.985 similar
\* to the second but less than that to one another, and the empty bitmap.
SampleBitmaps == {<<100, 0, 0, 255>>, <<110, 0, 0, 255>>, <<120, 0, 0, 255>>, <<>>}
SampleDelays == {8, 20}
DecodedFrameSeqs ==
  UNION { { [k \in 1..n |-> DecodedFrameOf(k - 1, d[k], b[k])] :
              d \in [1..n -> SampleDelays], b \in [1..n -> SampleBitmaps] } :
          n \in 0..MaxDecimate }
SamplePolicies ==
  { [enabled |-> TRUE, minIntervalMs |-> mi, similarityThreshold |-> th] :
      mi \in {8, 16},
      th \in {[num |-> 0, den |-> 1], [num |-> 985, den |-> 1000], [num |-> 1, den |-> 1]} }
DecimateInputs == [frames : DecodedFrameSeqs, policy : SamplePolicies]

InitDecimate == InitService /\ arg \in DecimateInputs /\ ret = None

ApplyDecimate ==
  /\ ret = None
  /\ ret' = [frames |-> decimateFrames(arg.frames, arg.policy)]
  /\ UNCHANGED <<arg, serviceVars>>

NextDecimate == ApplyDecimate

SpecDecimate == InitDecimate /\ [][NextDecimate]_vars

\* Bitmaps of 0..MaxBitmapLen bytes, each byte 0 or 255.
RECURSIVE BitmapsOfLen(_)
BitmapsOfLen(n) ==
  IF n = 0 THEN {<<>>}
  ELSE {Append(b, v) : b \in BitmapsOfLen(n - 1), v \in {0, 255}}
SimilarityInputs ==
  LET bitmaps == UNION {BitmapsOfLen(n) : n \in 0..MaxBitmapLen}
  IN [a : bitmaps, b : bitmaps]

InitSimilarity == InitService /\ arg \in SimilarityInputs /\ ret = None

ApplySimilarity ==
  /\ ret = None
  /\ ret' = calculateSimilarity(arg.a, arg.b)
  /\ UNCHANGED <<arg, serviceVars>>

NextSimilarity == ApplySimilarity

SpecSimilarity == InitSimilarity /\ [][NextSimilarity]_vars

\* Jobs whose configured dimensions lie at the low end of the schema's range,
\* around the 720 cap and at the high end.  The service does not validate
\* its job, so heights just above the schema's maximum are included.
SampleWidths ==
  (1..DimSpan) \cup ((maxWidth - DimSpan)..(maxWidth + DimSpan))
    \cup ((schemaMaxWidth - DimSpan)..schemaMaxWidth)
SampleHeights ==
  (1..DimSpan) \cup ((schemaMaxHeight - DimSpan)..(schemaMaxHeight + DimSpan))
DimensionInputs ==
  { MakeJob([in EXCEPT !.width = w, !.height = h], 1) :
      in \in JobInputsOver({"gif"}, {1}, Profiles, {NoKey}, {FALSE}),
      w \in SampleWidths, h \in SampleHeights }

InitDimensions == InitService /\ arg \in DimensionInputs /\ ret = None

\* Both argument vectors of a job, as renderFastPipeline and encode build them.
ApplyBuildArgs ==
  /\ ret = None
  /\ \E tie \in Ties :
       ret' = [fast |-> buildFastFfmpegArgs(arg, InputName(arg), OutputName(arg), tie),
               quality |-> buildFfmpegArgs(arg, OutputName(arg), tie)]
  /\ UNCHANGED <<arg, serviceVars>>

NextDimensions == ApplyBuildArgs

SpecDimensions == InitDimensions /\ [][NextDimensions]_vars

\* One render at a time, over every profile of the configuration.
NextPipeline ==
  \/ \E c \in Calls, in \in PipelineInputs : nextId <= PipelineRenders /\ Render(c, in)
  \/ LoadComplete
  \/ LoadFail
  \/ \E c \in Calls : AfterEnsure(c)
  \/ \E c \in Calls, ok \in BOOLEAN : FastFetchDone(c, ok)
  \/ \E c \in Calls, ok \in BOOLEAN : FastRunDone(c, ok)
  \/ \E c \in Calls, ok \in BOOLEAN : PosterRunDone(c, ok)
  \/ \E c \in Calls, ok \in BOOLEAN, parseOk \in BOOLEAN : ImgFetchDone(c, ok, parseOk)
  \/ \E c \in Calls, ok \in BOOLEAN : VidFetchDone(c, ok)
  \/ \E c \in Calls, ok \in BOOLEAN, m \in 0..(MaxFrames + ExtraProduced), pngOk \in BOOLEAN :
        DecodeRunDone(c, ok, m, pngOk)
  \/ \E w \in Workers : WorkerProcess(w)
  \/ \E w \in Workers : Deliver(w)
  \/ \E c \in Calls : AfterProcess(c)
  \/ \E c \in Calls, ok \in BOOLEAN : EncodeRunDone(c, ok)

SpecPipeline == Init /\ [][NextPipeline]_vars

(***************************************************************************)
(* RenderJob.create, applied on its own to props of every sign.            *)
(***************************************************************************)
\* An error as thrown: AppError or not, its code (a plain Error has none:
\* "Error") and its message.
PlainError(message) == [appError |-> FALSE, code |-> "Error", message |-> message]

RenderJobCreate(props) ==
  IF props.metadata.width <= 0 \/ props.metadata.height <= 0
  THEN [threw |-> TRUE,
        error |-> PlainError("Animation metadata must define positive dimensions")]
  ELSE IF props.metadata.frameCount <= 0
  THEN [threw |-> TRUE, error |-> PlainError("Animation must contain at least one frame")]
  ELSE IF props.options.configuration.frameRate <= 0
  THEN [threw |-> TRUE, error |-> PlainError("Frame rate must be positive")]
  ELSE [threw |-> FALSE, job |-> props]

JobPropsInputs ==
  [id : {"job-id"},
   metadata : [width : {-1, 0, 256}, height : {-1, 0, 256}, frameCount : {-1, 0, 10},
               frameRate : {-1, 0, 30}],
   options : [configuration : [frameRate : {-1, 0, 30}]]]

InitJobCreate == InitService /\ arg \in JobPropsInputs /\ ret = None

ApplyCreate ==
  /\ ret = None
  /\ ret' = RenderJobCreate(arg)
  /\ UNCHANGED <<arg, serviceVars>>

NextJobCreate == ApplyCreate

SpecJobCreate == InitJobCreate /\ [][NextJobCreate]_vars

(***************************************************************************)
(* RenderAnimationHandler.execute over a renderer that resolves or rejects.*)
(***************************************************************************)
\* z.string().url(): the string parses as a URL, which takes a scheme.
IsUrl(uri) == uri.scheme # ""

\* A schema that lets every payload through.
SchemaAcceptsAnything(payload) == TRUE

\* renderAnimationCommandSchema.safeParse(payload).success, over the fields
\* the payloads here vary.
SchemaAccepts(payload) ==
  /\ payload.id # ""
  /\ payload.source.type \in {"gif", "apng", "video"}
  /\ IsUrl(payload.source.uri)
  /\ payload.metadata.width > 0
  /\ payload.metadata.height > 0
  /\ payload.metadata.frameCount > 0
  /\ payload.metadata.frameRate >= 1 /\ payload.metadata.frameRate <= 60
  /\ payload.options.configuration.frameRate >= 1
  /\ payload.options.configuration.frameRate <= 60

\* AppError.validation(code, metadata)
AppErrorValidation(code) ==
  [appError |-> TRUE, code |-> code,
   message |-> "Validation failed for the provided payload."]

\* AppError.fromUnknown(error, code)
AppErrorFromUnknown(error, code) ==
  IF error.appError THEN error
  ELSE [appError |-> TRUE, code |-> code, message |-> error.message]

\* Props that carry an id of the handler's own.
JobPropsFreshId(payload) ==
  [id |-> "generated", source |-> payload.source, metadata |-> payload.metadata,
   options |-> payload.options]

\* The props execute builds from the validated payload.
JobPropsOf(payload) ==
  [id |-> payload.id, source |-> payload.source, metadata |-> payload.metadata,
   options |-> payload.options]

PayloadInputs ==
  [id : {"", "job-id", "job-2"},
   source : [type : {"gif", "video"},
             uri : {[scheme |-> "", rest |-> "notaurl"],
                    [scheme |-> "https", rest |-> "example.com/sample.gif"]}],
   metadata : [width : {0, 256}, height : {0, 256}, frameCount : {0, 10},
               frameRate : {0, 30, 61}],
   options : [configuration : [frameRate : {0, 30}]]]

\* What the renderer may resolve with or reject with.
SampleOutcomes ==
  [fromCache : BOOLEAN,
   metrics : [totalTimeMs : {5}],
   result : [mimeType : {"video/mp4", "video/webm"}]]
RendererErrors ==
  {[appError |-> TRUE, code |-> "animated-renderer.download-failed",
    message |-> "Failed to download animation source"],
   PlainError("ffmpeg run failed")}

\* execute has been called with the payload; render has not been called.
InitHandler ==
  /\ InitService
  /\ arg \in PayloadInputs
  /\ ret = [stage |-> "called", calls |-> <<>>, produced |-> None, value |-> None]

\* execute up to its await: validate, RenderJob.create, the call of render.
Execute ==
  /\ ret.stage = "called"
  /\ ret' = IF ~SchemaAccepts(arg)
            THEN [ret EXCEPT !.stage = "rejected",
                             !.value = AppErrorValidation("animated-renderer.invalid-payload")]
            ELSE LET createdJob == RenderJobCreate(JobPropsOf(arg))
                 IN IF createdJob.threw
                    THEN [ret EXCEPT !.stage = "rejected",
                                     !.value = AppErrorFromUnknown(createdJob.error,
                                                                   "animated-renderer.failure")]
                    ELSE [ret EXCEPT !.stage = "rendering",
                                     !.calls = Append(@, createdJob.job)]
  /\ UNCHANGED <<arg, serviceVars>>

\* render resolves: execute returns the outcome.
RenderResolves(outcome) ==
  /\ ret.stage = "rendering"
  /\ ret' = [ret EXCEPT !.stage = "resolved", !.produced = outcome, !.value = outcome]
  /\ UNCHANGED <<arg, serviceVars>>

\* render rejects: execute rethrows through AppError.fromUnknown.
RenderRejects(error) ==
  /\ ret.stage = "rendering"
  /\ ret' = [ret EXCEPT !.stage = "rejected", !.produced = error,
                        !.value = AppErrorFromUnknown(error, "animated-renderer.failure")]
  /\ UNCHANGED <<arg, serviceVars>>

NextHandler ==
  \/ Execute
  \/ \E outcome \in SampleOutcomes : RenderResolves(outcome)
  \/ \E error \in RendererErrors : RenderRejects(error)

SpecHandler == InitHandler /\ [][NextHandler]_vars

(***************************************************************************)
(* MemoryCache on its own: gets, sets and the clock.                       *)
(***************************************************************************)
LruKeys == {"a", "b", "c"}
LruValues == {"x", "y"}

\* new MemoryCache({ maxEntries: LruMaxEntries, ttlMs: cacheTtlMs }); ret keeps
\* the history of uses: the keys of the get hits and the sets, in order, and
\* the number of operations.
InitLru == InitService /\ arg = None /\ ret = [uses |-> <<>>, ops |-> 0]

MemoryCacheGetOp(k) ==
  /\ ret.ops < LruOps
  /\ LET got == CacheGet(cache, k, now)
     IN /\ cache' = got.cache
        /\ ret' = [uses |-> IF got.hit THEN Append(ret.uses, k) ELSE ret.uses,
                   ops |-> ret.ops + 1]
  /\ UNCHANGED <<pc, job, local, result, nextId, now, codecVars, earlyUse, vfs,
                 lastStored, poolVars, arg>>

MemoryCacheSetOp(k, v) ==
  /\ ret.ops < LruOps
  /\ cache' = MemoryCacheSet(cache, k, v, now, LruMaxEntries)
  /\ ret' = [uses |-> Append(ret.uses, k), ops |-> ret.ops + 1]
  /\ UNCHANGED <<pc, job, local, result, nextId, now, codecVars, earlyUse, vfs,
                 lastStored, poolVars, arg>>

NextLru ==
  \/ \E k \in LruKeys : MemoryCacheGetOp(k)
  \/ \E k \in LruKeys, v \in LruValues : MemoryCacheSetOp(k, v)
  \/ Tick

SpecLru == InitLru /\ [][NextLru]_vars

(***************************************************************************)
(* Renders on a file system whose unlink throws for some kinds of path.    *)
(***************************************************************************)
PathKinds == {"input", "output", "poster", "frame"}

InitUnlink == InitService /\ arg \in [unlinkThrows : SUBSET PathKinds] /\ ret = None

NextUnlink ==
  \/ \E c \in Calls, in \in CodecInputs : nextId <= UnlinkRenders /\ Render(c, in)
  \/ LoadComplete
  \/ LoadFail
  \/ \E c \in Calls : AfterEnsure(c)
  \/ \E c \in Calls, ok \in BOOLEAN : FastFetchDone(c, ok)
  \/ \E c \in Calls, ok \in BOOLEAN : FastRunDone(c, ok)
  \/ \E c \in Calls, ok \in BOOLEAN : PosterRunDone(c, ok)
  \/ \E c \in Calls, ok \in BOOLEAN, parseOk \in BOOLEAN : ImgFetchDone(c, ok, parseOk)
  \/ \E c \in Calls, ok \in BOOLEAN : VidFetchDone(c, ok)
  \/ \E c \in Calls, ok \in BOOLEAN, m \in 0..(MaxFrames + ExtraProduced), pngOk \in BOOLEAN :
        DecodeRunDone(c, ok, m, pngOk)
  \/ \E w \in Workers : WorkerProcess(w)
  \/ \E w \in Workers : Deliver(w)
  \/ \E c \in Calls : AfterProcess(c)
  \/ \E c \in Calls, ok \in BOOLEAN : EncodeRunDone(c, ok)

SpecUnlink == InitUnlink /\ [][NextUnlink]_vars

(***************************************************************************)
(* FrameProcessorPool.process on its own.  ret keeps, per submission, the  *)
(* worker it went to, whether destroy had run, and the state of its        *)
(* promise, and the number of                                              *)
(* emissions that found listeners registered and were ignored by them.     *)
(***************************************************************************)
InitSubmissions == InitService /\ arg = None /\ ret = [promises |-> <<>>, ignored |-> 0]

\* process(task) up to the return of the promise.
Submit ==
  /\ Len(ret.promises) < MaxSubmissions
  /\ LET id == Len(ret.promises) + 1
         sub == PoolProcess(workers, roundRobinIndex, id, 1,
                            DecodedFrameOf(0, 20, Bitmap(id, 1)))
     IN /\ workers' = sub.workers
        /\ roundRobinIndex' = sub.rr
        /\ ret' = [ret EXCEPT !.promises = Append(@,
                       [worker |-> pickWorker(roundRobinIndex).worker, state |-> "pending",
                        afterDestroy |-> destroyed])]
  /\ UNCHANGED <<pc, job, local, result, nextId, now, codecVars, earlyUse, vfs, cache,
                 lastStored, destroyed, arg>>

\* The worker emits a message of a type the pool does not know.
EmitsOther(w) ==
  /\ workers[w].alive
  /\ Len(workers[w].outbox) < MaxSubmissions
  /\ ret.ignored < MaxSubmissions
  /\ workers' = [workers EXCEPT ![w].outbox = Append(@, [type |-> "other"])]
  /\ UNCHANGED <<pc, job, local, result, nextId, now, codecVars, earlyUse, vfs, cache,
                 lastStored, roundRobinIndex, destroyed>>
  /\ UNCHANGED fnVars

\* The host emits the worker's next event; the promises of the listeners that
\* act on it settle.
DeliverSettling(w) ==
  /\ DeliverTo(w)
  /\ LET msg == Head(workers[w].outbox)
         ids == {workers[w].handlers[i].id : i \in 1..Len(workers[w].handlers)}
     IN ret' = [promises |-> [i \in DOMAIN ret.promises |->
                  IF i \in ids /\ Settles(msg)
                  THEN [ret.promises[i] EXCEPT
                          !.state = IF msg.type = "error" THEN "rejected" ELSE "resolved"]
                  ELSE ret.promises[i]],
                ignored |-> IF ids # {} /\ ~Settles(msg) THEN ret.ignored + 1
                            ELSE ret.ignored]
  /\ UNCHANGED arg

NextSubmissions ==
  \/ Submit
  \/ \E w \in Workers : WorkerProcess(w)
  \/ \E w \in Workers : WorkerCrash(w)
  \/ \E w \in Workers : EmitsOther(w)
  \/ \E w \in Workers : DeliverSettling(w)
  \/ \E keepReplies \in BOOLEAN : Destroy(keepReplies)

SpecSubmissions == InitSubmissions /\ [][NextSubmissions]_vars

(***************************************************************************)
(* gifToolkit: sanitizeFrames, in its two versions, over frames of a       *)
(* canvas one pixel high.  A pixel is a colour, 0 being the transparent    *)
(* one (alpha 0); a frame carries its patch, the column the patch starts   *)
(* at (dims.left) and its disposal type.                                   *)
(***************************************************************************)
CanvasWidth == 2
MaxGifFrames == 3
Colours == 0 .. 1

RECURSIVE DigestFrom(_, _)
\* The digest of the bytes from position i on: distinct data of one length
\* have distinct digests.
DigestFrom(data, i) ==
  IF i > Len(data) THEN 0
  ELSE data[i] + Cardinality(Colours) * DigestFrom(data, i + 1)

\* frameHash: createHash('sha1').update(data).digest('hex').
frameHash(data) == [sha1 |-> DigestFrom(data, 1)]

\* hashFrame: createHash('sha1').update(data).digest('hex').
hashFrame(data) == [sha1 |-> DigestFrom(data, 1)]

\* expandToFullFrame: a cleared canvas with the patch put at dims.left; the
\* patch replaces what it covers, transparent pixels included.
expandToFullFrame(frame, width) ==
  [x \in 1 .. width |->
     IF x > frame.left /\ x <= frame.left + Len(frame.patch)
     THEN frame.patch[x - frame.left]
     ELSE 0]

RECURSIVE SanitizeCanvasLoop(_, _, _, _, _, _)
\* The for loop of the first sanitizeFrames from frame i on.
SanitizeCanvasLoop(frames, width, i, sanitized, removed, previousHash) ==
  IF i > Len(frames)
  THEN [sanitized |-> sanitized, removed |-> removed]
  ELSE LET fullFrame == expandToFullFrame(frames[i], width)
           hash == frameHash(fullFrame)
       IN  IF hash = previousHash
           THEN SanitizeCanvasLoop(frames, width, i + 1, sanitized, removed + 1,
                                   previousHash)
           ELSE SanitizeCanvasLoop(frames, width, i + 1,
                                   Append(sanitized, fullFrame), removed, hash)

\* sanitizeFrames of the first version of the toolkit: each frame is expanded
\* on its own canvas.
sanitizeFramesCanvas(frames, width) ==
  SanitizeCanvasLoop(frames, width, 1, <<>>, 0, None)

\* compositePatch: the patch's pixels that are not transparent overwrite the
\* destination.
compositePatch(destination, patch, left) ==
  [x \in DOMAIN destination |->
     IF x > left /\ x <= left + Len(patch) /\ patch[x - left] # 0
     THEN patch[x - left]
     ELSE destination[x]]

\* clearPatch: the area of the patch becomes transparent.
clearPatch(destination, patchWidth, left) ==
  [x \in DOMAIN destination |->
     IF x > left /\ x <= left + patchWidth THEN 0 ELSE destination[x]]

RECURSIVE ExpandFrom(_, _, _)
\* The map of expandToFullFrames from frame i on, previous being the canvas
\* left by the frames before it.
ExpandFrom(frames, i, previous) ==
  IF i > Len(frames) THEN <<>>
  ELSE LET frame == frames[i]
           working == compositePatch(previous, frame.patch, frame.left)
           next == CASE frame.disposalType = 2 ->
                          clearPatch(working, Len(frame.patch), frame.left)
                     [] frame.disposalType = 3 -> previous
                     [] OTHER -> working
       IN  <<[data |-> working, disposalType |-> frame.disposalType]>>
             \o ExpandFrom(frames, i + 1, next)

\* expandToFullFrames: the frames composited onto a transparent background.
expandToFullFrames(frames, width) ==
  ExpandFrom(frames, 1, [x \in 1 .. width |-> 0])

\* A version that removes nothing.
sanitizeFramesKeepAll(frames, width) ==
  [sanitized |-> [i \in 1 .. Len(frames) |->
                    expandToFullFrames(frames, width)[i].data],
   removed |-> 0]

RECURSIVE SanitizeLoop(_, _, _, _, _)
\* The for loop of the exported sanitizeFrames from frame i on.
SanitizeLoop(expanded, i, sanitized, removed, previousHash) ==
  IF i > Len(expanded)
  THEN [sanitized |-> sanitized, removed |-> removed]
  ELSE LET hash == hashFrame(expanded[i].data)
       IN  IF previousHash # None /\ previousHash = hash
           THEN SanitizeLoop(expanded, i + 1, sanitized, removed + 1,
                             previousHash)
           ELSE SanitizeLoop(expanded, i + 1,
                             Append(sanitized, expanded[i].data), removed, hash)

\* sanitizeFrames as exported by the second version of the toolkit.
sanitizeFrames(frames, width) ==
  LET expanded == expandToFullFrames(frames, width)
      looped == SanitizeLoop(expanded, 1, <<>>, 0, None)
  IN  IF Len(looped.sanitized) = 0 /\ Len(expanded) > 0
      THEN [looped EXCEPT !.sanitized = Append(@, expanded[1].data)]
      ELSE looped

\* The frames a decoder can hand over: the patch lies within the canvas.
GifFrames ==
  UNION {[left : {l}, patch : [1 .. w -> Colours], disposalType : {1, 2, 3}] :
           <<l, w>> \in {lw \in (0 .. CanvasWidth - 1) \X (1 .. CanvasWidth) :
                           lw[1] + lw[2] <= CanvasWidth}}

SanitizeInputs == UNION {[1 .. n -> GifFrames] : n \in 0 .. MaxGifFrames}

InitSanitize == InitService /\ arg \in SanitizeInputs /\ ret = None

ApplySanitizeCanvas ==
  /\ ret = None
  /\ ret' = [fn |-> "canvas", out |-> sanitizeFramesCanvas(arg, CanvasWidth)]
  /\ UNCHANGED <<arg, serviceVars>>

ApplySanitize ==
  /\ ret = None
  /\ ret' = [fn |-> "composited", out |-> sanitizeFrames(arg, CanvasWidth)]
  /\ UNCHANGED <<arg, serviceVars>>

NextSanitize == ApplySanitizeCanvas \/ ApplySanitize

SpecSanitize == InitSanitize /\ [][NextSanitize]_vars

(***************************************************************************)
(* Properties.                                                             *)
(***************************************************************************)
\* A step taken by call c: render is entered or resumes after an await.
StepOf(c) == pc'[c] # pc[c] \/ job'[c] # job[c]
\* render is entered and returns from the cache check.
HitStep(c) == job'[c] # job[c] /\ pc'[c] = "done"
\* The entries of the cache that have not expired.
LiveEntries(ch, t) == {ch[i] : i \in {n \in 1..Len(ch) : ~IsStale(ch[n], t)}}

\* C1: codec run invocations are serialized: at most one run call is in
\* progress on the shared codec runtime at any time.
C1_RunsSerialized == Cardinality(Running) <= 1

\* C2: the codec runtime is created and loaded at most once, and no VFS
\* operation and no run is issued on it before its load has completed.
C2_InitOnceBeforeUse == created <= 1 /\ ~earlyUse

\* C3: two concurrent renders with different job ids never write, read or
\* unlink the same VFS path.
C3_PathsScopedByJob ==
  \A a \in Active, b \in Active :
    job[a].id # job[b].id => local[a].touched \cap local[b].touched = {}

\* C4: whenever a render call has returned or thrown, the VFS contains none
\* of the files that render wrote: every file present belongs to a render
\* that is still in progress.
C4_VfsCleanOnExit ==
  \A p \in DOMAIN vfs : \E c \in Active : job[c].id = vfs[p].writer

\* C5: each processedFrame reply completes exactly one submission, the oldest
\* unresolved one on that worker; the later submissions stay pending.
C5_FifoOneReplyOneTask ==
  [][\A w \in Workers :
       ( /\ destroyed' = destroyed
         /\ workers[w].outbox # <<>>
         /\ workers'[w].outbox = Tail(workers[w].outbox)
         /\ Head(workers[w].outbox).type = "processedFrame"
         /\ workers[w].handlers # <<>> )
       => workers'[w].handlers = Tail(workers[w].handlers)]_vars

\* C6: when the pool is destroyed while tasks are pending, every pending
\* task fails: its handlers are detached and its render is rejected.
C6_DestroyFailsPending ==
  [][(~destroyed /\ destroyed') =>
       /\ \A w \in Workers : workers'[w].handlers = <<>>
       /\ \A c \in Calls :
            (pc[c] = "process" /\ \E w \in Workers :
                 HandlersFor(workers[w].handlers, job[c].id) # {})
            => local'[c].rejected]_vars

\* C7: a render call that finds a live entry under its cacheKey returns an
\* outcome with fromCache = TRUE whose metrics and result are those of the
\* outcome last stored under that key.
C7_CacheHitReturnsOriginal ==
  [][\A c \in Calls : HitStep(c) =>
       LET k == job'[c].cacheKey
       IN /\ k \in CacheKeys
          /\ lastStored[k] # None
          /\ ~lastStored[k].fromCache
          /\ result'[c].fromCache
          /\ result'[c].metrics = lastStored[k].metrics
          /\ result'[c].result = lastStored[k].result]_vars

C7_Witness ==
  \E c \in Calls :
    /\ pc[c] = "done" /\ result[c].fromCache
    /\ result[c].metrics.totalTimeMs > 0
    /\ result[c].result.video # <<>>

\* C8: a render call that hits the cache changes nothing else: the codec
\* handle and its load state, the VFS, the worker pool and the cache entries
\* (their outcomes, with fromCache = FALSE, and their ages) stay as they were
\* and the call is not left waiting on a download, a run or a worker.
C8_CacheHitNoMutation ==
  [][\A c \in Calls : HitStep(c) =>
       /\ UNCHANGED <<ffmpeg, loadState, created, earlyUse, vfs, roundRobinIndex,
                      workers, lastStored>>
       /\ {cache'[i] : i \in 1..Len(cache')} = {cache[i] : i \in 1..Len(cache)}
       /\ \A i \in 1..Len(cache') : ~cache'[i].value.fromCache
       /\ \A d \in Calls \ {c} : pc'[d] = pc[d] /\ local'[d] = local[d]
       /\ local'[c] = local[c]]_vars

C8_Witness ==
  \E c \in Calls, d \in Calls :
    /\ pc[c] = "done" /\ result[c].fromCache
    /\ pc[d] \in RunPcs

\* C9: a render call without a cacheKey never writes the cache: every step
\* of such a call leaves the cache as it was.
C9_NoKeyNoCacheWrite ==
  [][\A c \in Calls : (StepOf(c) /\ job'[c].cacheKey = NoKey) =>
       cache' = cache /\ lastStored' = lastStored]_vars

C9_Witness ==
  \E c \in Calls, d \in Calls :
    /\ pc[c] = "done" /\ job[c].cacheKey = NoKey /\ ~result[c].fromCache
    /\ pc[d] = "failed" /\ job[d].cacheKey = NoKey
    /\ cache # <<>>

\* C10: the cache is not written on failure: no step of a render call other
\* than its successful return changes the live entries of the cache, so a
\* call that throws leaves every entry, also one under its own key, in place.
C10_NoCacheWriteOnFailure ==
  [][\A c \in Calls : (StepOf(c) /\ pc'[c] # "done") =>
       /\ LiveEntries(cache', now') = LiveEntries(cache, now)
       /\ lastStored' = lastStored]_vars

C10_Witness ==
  \E c \in Calls :
    /\ pc[c] = "failed" /\ job[c].cacheKey \in CacheKeys
    /\ \E e \in LiveEntries(cache, now) : e.key = job[c].cacheKey

\* C11: a render is on the fast path if and only if pipeline = fast, the
\* source is not a frameSequence, container = mp4, codec = h264 and
\* enableAlpha = false; every other render is on the quality path (decode,
\* decimation and worker processing, encode).
FastPcs == {"fastFetch", "fastRun", "posterRun"}
QualityPcs == {"imgFetch", "vidFetch", "decodeRun", "process", "encodeRun"}
FastConditions(j) ==
  /\ j.pipeline = "fast"
  /\ j.sourceType # "frameSequence"
  /\ j.container = "mp4"
  /\ j.codec = "h264"
  /\ j.enableAlpha = FALSE

EnsurePcs == {"ensured", "awaitLoad"}

C11_FastPathIff ==
  [][\A c \in Calls :
       /\ (pc[c] \in EnsurePcs /\ pc'[c] \notin EnsurePcs \cup {"failed"}) =>
             IF FastConditions(job[c])
             THEN pc'[c] = "fastFetch"
             ELSE pc'[c] \in {"imgFetch", "vidFetch", "process"}
       /\ pc[c] \in FastPcs => pc'[c] \in FastPcs \cup {"done", "failed"}
       /\ pc[c] \in QualityPcs => pc'[c] \in QualityPcs \cup {"done", "failed"}]_vars

C11_Witness ==
  \E c \in Calls :
    /\ pc[c] = "encodeRun"
    /\ job[c].pipeline = "fast" /\ job[c].sourceType = "gif"
    /\ job[c].container = "mp4" /\ job[c].codec = "h264" /\ job[c].enableAlpha

\* C12: for a non-empty input the decimator's output contains the first and
\* the last input frame, has at least 1 and at most as many frames as the
\* input, and for a one-frame input is that frame.
C12_DecimatorKeepsEnds ==
  (ret # None /\ Len(arg.frames) >= 1) =>
    LET in == arg.frames
        out == ret.frames
    IN /\ \E i \in 1..Len(out) : out[i] = in[1]
       /\ \E i \in 1..Len(out) : out[i] = in[Len(in)]
       /\ 1 <= Len(out) /\ Len(out) <= Len(in)
       /\ Len(in) = 1 => out = in

\* The loop skipped the final frame and the final-frame rule put it back.
C12_Witness ==
  /\ ret # None /\ Len(arg.frames) = 3
  /\ arg.policy.minIntervalMs = 16
  /\ arg.frames[3].descriptor.delayMs = 8
  /\ arg.frames[3].bitmap = arg.frames[1].bitmap /\ arg.frames[3].bitmap # <<>>
  /\ ret.frames = <<arg.frames[1], arg.frames[3]>>

\* C13: the decimator's output is a subsequence of its input: its frames are
\* input frames at strictly increasing positions, so the order is kept and
\* no input frame is output twice.
IsSubsequence(out, in) ==
  \E f \in [1..Len(out) -> 1..Len(in)] :
    /\ \A i \in 1..Len(out) : out[i] = in[f[i]]
    /\ \A i, k \in 1..Len(out) : i < k => f[i] < f[k]

C13_DecimatorSubsequence ==
  ret # None => IsSubsequence(ret.frames, arg.frames)

\* The loop dropped the middle frame and kept the final one itself.
C13_Witness ==
  /\ ret # None /\ Len(arg.frames) = 3
  /\ arg.frames[2].descriptor.delayMs < arg.policy.minIntervalMs
  /\ arg.frames[3].descriptor.delayMs >= arg.policy.minIntervalMs
  /\ ret.frames = <<arg.frames[1], arg.frames[3]>>

\* C14: similarity(x, x) = 1 for every bitmap x, the empty one included;
\* similarity(a, b) is in [0, 1] for bitmaps of equal length and 0 for
\* bitmaps of different lengths.
C14_SimilarityLaws ==
  ret # None =>
    /\ arg.a = arg.b => ~ret.nan /\ ret.num = ret.den
    /\ Len(arg.a) = Len(arg.b) => ~ret.nan /\ 0 <= ret.num /\ ret.num <= ret.den
    /\ Len(arg.a) # Len(arg.b) => ~ret.nan /\ ret.num = 0

\* C15: the width and the height in the scale filter of the fast and of the
\* quality argument vector are even integers, at least 2 and at most 720.
EvenInRange(v) == v % 2 = 0 /\ 2 <= v /\ v <= 720

C15_ScaleEvenInRange ==
  ret # None =>
    /\ EvenInRange(ret.fast.scale.width) /\ EvenInRange(ret.fast.scale.height)
    /\ EvenInRange(ret.quality.scale.width) /\ EvenInRange(ret.quality.scale.height)

\* A width above the cap with an odd height: capped, scaled and made even.
C15_Witness ==
  /\ ret # None
  /\ arg.width = 1280 /\ arg.height = 719
  /\ ret.fast.scale = [width |-> 720, height |-> 404]
  /\ ret.quality.scale = ret.fast.scale

\* C16: workers are addressed strictly round-robin.  The index starts at 0
\* and only submissions move it; when a render submits its n frames, the k-th
\* of them goes to worker (index + k - 1) mod poolSize and the index advances
\* by n mod poolSize, so each worker receives floor(n/poolSize) or
\* ceil(n/poolSize) of them, whatever other renders have submitted before.
NewHandlers(w) ==
  SubSeq(workers'[w].handlers, Len(workers[w].handlers) + 1, Len(workers'[w].handlers))

C16_RoundRobin ==
  [][LET poolSize == Cardinality(Workers)
         submits(c) == pc[c] # "process" /\ pc'[c] = "process"
     IN /\ roundRobinIndex \in Workers
        /\ (\A c \in Calls : ~submits(c)) =>
              /\ roundRobinIndex' = roundRobinIndex
              /\ \A w \in Workers : Len(workers'[w].handlers) <= Len(workers[w].handlers)
        /\ \A c \in Calls : submits(c) =>
              LET n == Len(local'[c].frames)
                  to(k) == (roundRobinIndex + k - 1) % poolSize
              IN /\ roundRobinIndex' = (roundRobinIndex + n) % poolSize
                 /\ \A w \in Workers :
                      /\ Len(workers'[w].handlers) >= Len(workers[w].handlers)
                      /\ Len(NewHandlers(w)) = Cardinality({k \in 1..n : to(k) = w})
                      /\ \A k \in 1..n : to(k) = w =>
                            \E i \in 1..Len(NewHandlers(w)) :
                              NewHandlers(w)[i] = [id |-> job'[c].id, rank |-> k]
                      /\ Len(NewHandlers(w)) \in {n \div poolSize,
                                                  (n + poolSize - 1) \div poolSize}]_vars

\* Two renders in flight: one submitted one frame (worker 0), then the other
\* submitted two (worker 1, then worker 0).
C16_Witness ==
  \E c \in Calls, d \in Calls :
    /\ pc[c] = "process" /\ pc[d] = "process"
    /\ workers[0].handlers = <<[id |-> job[c].id, rank |-> 1], [id |-> job[d].id, rank |-> 2]>>
    /\ workers[1].handlers = <<[id |-> job[d].id, rank |-> 1]>>
    /\ roundRobinIndex = 1

\* C17: every outcome render returns, from the fast path, the quality path
\* or the cache, has metrics.outputSizeBytes = length of result.video.
C17_SizeIsVideoLength ==
  \A c \in Calls : pc[c] = "done" =>
    result[c].metrics.outputSizeBytes = Len(result[c].result.video)

\* A quality outcome and, from the cache, a fast one.
C17_Witness ==
  \E c \in Calls, d \in Calls :
    /\ pc[c] = "done" /\ result[c].fromCache /\ job[c].pipeline = "fast"
    /\ Len(result[c].result.video) > 0
    /\ pc[d] = "done" /\ ~result[d].fromCache /\ job[d].pipeline = "quality"
    /\ Len(result[d].result.video) > 0

\* C18: every outcome render computes has result.container = the configured
\* container and result.mimeType = video/mp4 for mp4, video/webm for webm.
C18_ContainerAndMime ==
  \A c \in Calls : (pc[c] = "done" /\ ~result[c].fromCache) =>
    /\ result[c].result.container = job[c].container
    /\ result[c].result.container = "mp4" => result[c].result.mimeType = "video/mp4"
    /\ result[c].result.container = "webm" => result[c].result.mimeType = "video/webm"
    /\ result[c].result.container \in {"mp4", "webm"}

\* A fast-pipeline request for webm, rendered on the quality path.
C18_Witness ==
  \E c \in Calls :
    /\ pc[c] = "done" /\ ~result[c].fromCache
    /\ job[c].pipeline = "fast" /\ job[c].container = "webm"
    /\ result[c].result.mimeType = "video/webm"

\* C19: every outcome of the fast path has result.frameRate = min(configured
\* frameRate, 30), at most 30, and the fps of the fast argument vector handed
\* to the codec is that number.
C19_FastFrameRateCapped ==
  \A c \in Calls :
    /\ pc[c] = "fastRun" =>
          /\ FastConditions(job[c])
          /\ local[c].args.fps = Min(job[c].frameRate, 30)
    /\ (pc[c] = "done" /\ ~result[c].fromCache /\ FastConditions(job[c])) =>
          /\ result[c].result.frameRate = Min(job[c].frameRate, 30)
          /\ result[c].result.frameRate <= 30

C19_Witness ==
  \E c \in Calls :
    /\ pc[c] = "done" /\ FastConditions(job[c])
    /\ job[c].frameRate = 60 /\ result[c].result.frameRate = 30

\* C20: poster extraction failure is not fatal: whenever the poster run of a
\* fast render ends, render returns an outcome with the transcoded video,
\* its posterFrame either absent or the poster, and neither the poster file
\* nor the input nor the output is left in the VFS.
C20_PosterFailureNotFatal ==
  [][\A c \in Calls : (pc[c] = "posterRun" /\ pc'[c] # "posterRun") =>
       /\ pc'[c] = "done"
       /\ ~result'[c].fromCache
       /\ result'[c].result.video = local[c].video
       /\ result'[c].result.posterFrame \in {None, Png(SubSeq(local[c].video, 1, 4))}
       /\ {PosterName(job[c]), InputName(job[c]), OutputName(job[c])}
             \cap DOMAIN vfs' = {}]_vars

\* A render that asked for a poster returned without one.
C20_Witness ==
  \E c \in Calls :
    /\ pc[c] = "done" /\ ~result[c].fromCache
    /\ job[c].producePosterFrame /\ FastConditions(job[c])
    /\ result[c].result.posterFrame = None
    /\ Len(result[c].result.video) > 0
    /\ \A p \in DOMAIN vfs : vfs[p].writer # job[c].id

\* C21: when the decode run leaves fewer PNG files than the job's frameCount,
\* decodeVideo returns exactly the frames produced, in order from index 0, and
\* the render goes on to process them; a decode step fails only because the
\* run or the PNG parser threw, never because frames are missing.
C21_DecodeReturnsPrefix ==
  [][\A c \in Calls :
       pc[c] = "decodeRun" =>
         /\ pc'[c] \in {"decodeRun", "process", "failed"}
         /\ pc'[c] = "failed" =>
               result'[c].message \in {"ffmpeg run failed", "PNG parse failed"}
         /\ (pc'[c] = "process" /\ local'[c].produced < job[c].frameCount) =>
               /\ result'[c] = None
               /\ Len(local'[c].decoded) = local'[c].produced
               /\ \A i \in 1..local'[c].produced :
                     local'[c].decoded[i] =
                       DecodedFrameOf(i - 1, 1000 \div job[c].metadataFrameRate,
                                      Bitmap(job[c].id, i))]_vars
C21_Witness ==
  \E c \in Calls :
    /\ pc[c] = "process"
    /\ job[c].sourceType = "video"
    /\ job[c].frameCount = 2
    /\ local[c].produced = 1
    /\ Len(local[c].decoded) = 1
    /\ result[c] = None

\* C22: a render that failed because the fetch of its source answered with a
\* non-2xx status (the two messages the fetch sites give that failure) carries
\* the code animated-renderer.download-failed, whatever the source kind and
\* pipeline.
C22_NonOkIsDownloadFailed ==
  \A c \in Calls :
    (pc[c] = "failed"
       /\ result[c].message \in {"Failed to download animation source",
                                 "Unable to fetch video source"})
      => result[c].error = "animated-renderer.download-failed"

\* The codes of the tagged errors: those the service raises and the kinds the
\* failure taxonomy names.
TaggedCodes ==
  {"animated-renderer.download-failed", "animated-renderer.decode-failed",
   "animated-renderer.unsupported-source",
   "animated-renderer.fast-pipeline.unsupported-source",
   "animated-renderer.codec-not-initialized", "animated-renderer.codec-run-failed",
   "animated-renderer.pool-shutdown", "animated-renderer.invalid-job"}

\* C23: a render call that has ended either returned a complete outcome or
\* threw an error tagged with an animated-renderer.{kind} code, never an
\* untagged one.
C23_FailuresAreTagged ==
  \A c \in Calls :
    /\ pc[c] = "done" =>
          /\ result[c].result.video # <<>>
          /\ result[c].metrics.outputSizeBytes = Len(result[c].result.video)
    /\ pc[c] = "failed" => result[c].error \in TaggedCodes

\* C24: RenderJob.create throws whenever the metadata width, height,
\* frameCount or frameRate is zero or negative, so that no job exists to render.
C24_InvalidMetadataRejected ==
  (ret # None
     /\ (arg.metadata.width <= 0 \/ arg.metadata.height <= 0
           \/ arg.metadata.frameCount <= 0 \/ arg.metadata.frameRate <= 0))
    => ret.threw

\* A payload the command schema rejects.
FailsValidation(payload) ==
  \/ payload.id = ""
  \/ payload.source.uri.scheme = ""
  \/ payload.metadata.width <= 0
  \/ payload.metadata.height <= 0
  \/ payload.metadata.frameCount <= 0
  \/ payload.metadata.frameRate < 1 \/ payload.metadata.frameRate > 60
  \/ payload.options.configuration.frameRate < 1
  \/ payload.options.configuration.frameRate > 60

\* C25: execute with a payload that fails schema validation rejects with the
\* validation error and never calls render.
C25_InvalidPayloadRejected ==
  FailsValidation(arg) =>
    /\ ret.calls = <<>>
    /\ ret.stage \in {"called", "rejected"}
    /\ ret.stage = "rejected" =>
          ret.value = [appError |-> TRUE, code |-> "animated-renderer.invalid-payload",
                       message |-> "Validation failed for the provided payload."]
C25_Witness ==
  /\ arg.id = ""
  /\ arg.source.uri.scheme = ""
  /\ arg.metadata.width = 0
  /\ ret.stage = "rejected"
  /\ ret.calls = <<>>

\* C26: execute with a valid payload calls render exactly once, with a job
\* whose id is the payload's, and returns the outcome render produced.
C26_DelegatesOnce ==
  (~FailsValidation(arg) /\ ret.stage # "called") =>
    /\ Len(ret.calls) = 1
    /\ ret.calls[1].id = arg.id
    /\ ret.stage = "resolved" => ret.value = ret.produced /\ ret.value \in SampleOutcomes
C26_Witness ==
  /\ arg.id = "job-id"
  /\ ret.stage = "resolved"
  /\ Len(ret.calls) = 1
  /\ ret.value.result.mimeType = "video/webm"

\* The keys a cache holds, and the place of a key's last use in a history.
KeysOf(ch) == {ch[i].key : i \in 1..Len(ch)}
LastUse(uses, k) ==
  CHOOSE i \in 1..Len(uses) : uses[i] = k /\ \A n \in (i + 1)..Len(uses) : uses[n] # k

\* C27: the cache never holds more than its maxEntries entries, and a set of a
\* new key on a full cache removes exactly the key whose last use (get hit or
\* set) is the oldest and adds the new key.
C27_LruEviction ==
  [][/\ Len(cache') <= LruMaxEntries
     /\ \A k \in LruKeys :
          (ret'.uses = Append(ret.uses, k) /\ k \notin KeysOf(cache)
             /\ Len(cache) = LruMaxEntries) =>
            LET lru == CHOOSE q \in KeysOf(cache) :
                         \A r \in KeysOf(cache) :
                           LastUse(ret.uses, q) <= LastUse(ret.uses, r)
            IN KeysOf(cache') = (KeysOf(cache) \ {lru}) \cup {k}]_vars
C27_Witness ==
  /\ ret.uses = <<"a", "b", "a", "c">>
  /\ ret.ops = 4
  /\ KeysOf(cache) = {"a", "c"}

\* C28: a render whose key has no entry younger than or as old as the ttl
\* misses (it returns nothing yet and goes on to the codec), and a render
\* that missed returns an outcome with fromCache = FALSE.
C28_ExpiredNeverServed ==
  [][\A c \in Calls :
       /\ (job'[c] # job[c] /\ job'[c].cacheKey \in CacheKeys
             /\ \A i \in 1..Len(cache) :
                   cache[i].key = job'[c].cacheKey => now - cache[i].createdAt > cacheTtlMs)
            => /\ pc'[c] \in {"ensured", "awaitLoad"}
               /\ result'[c] = None
               /\ job'[c].cacheKey \notin KeysOf(cache')
       /\ (pc[c] \notin {"idle", "done", "failed"} /\ pc'[c] = "done")
            => result'[c].fromCache = FALSE]_vars
\* The first render stored its outcome under k1; the second render of k1, the
\* only other cache operation, found the entry expired and removed it.
C28_Witness ==
  \E c, d \in Calls :
    /\ job[d].id = 1 /\ job[d].cacheKey = "k1"
    /\ pc[d] = "done" /\ result[d].fromCache = FALSE
    /\ job[c].id = 2 /\ job[c].cacheKey = "k1"
    /\ pc[c] \in {"ensured", "awaitLoad", "fastFetch", "fastRun", "process", "encodeRun"}
    /\ nextId = 3
    /\ cache = <<>>

\* C29: every render that missed runs to its own outcome (fromCache = FALSE)
\* whatever the other calls store meanwhile, and when it completes under a
\* cache key the one entry of that key is its outcome, whole: after two
\* concurrent renders of a key the entry is the outcome stored last.
C29_LastWriterWins ==
  [][\A c \in Calls :
       (pc[c] \notin {"idle", "done", "failed"} /\ pc'[c] = "done"
          /\ job[c].cacheKey \in CacheKeys)
         => /\ result'[c].fromCache = FALSE
            /\ \E i \in 1..Len(cache') :
                  /\ cache'[i].key = job[c].cacheKey
                  /\ cache'[i].value = result'[c]
                  /\ \A n \in 1..Len(cache') : cache'[n].key = job[c].cacheKey => n = i]_vars
\* Renders 1 and 2 of k1 both missed and both completed; the entry is the
\* outcome of render 1, which stored after render 2 did.
C29_Witness ==
  \E c, d \in Calls :
    /\ job[d].id = 1 /\ job[c].id = 2 /\ nextId = 3
    /\ job[d].cacheKey = "k1" /\ job[c].cacheKey = "k1"
    /\ pc[d] = "done" /\ pc[c] = "done"
    /\ result[d].fromCache = FALSE /\ result[c].fromCache = FALSE
    /\ result[c] # result[d]
    /\ Len(cache) = 1 /\ cache[1].key = "k1" /\ cache[1].value = result[d]

\* C30: whatever the order in which the workers reply, the processed frame a
\* render holds at rank r, once it has one, is the PNG of its r-th selected
\* frame, so that the file written at rank r - 1 is that frame.
C30_RankHoldsSelectedFrame ==
  \A c \in Calls :
    pc[c] \in {"process", "encodeRun"} =>
      \A r \in DOMAIN local[c].pngs :
        local[c].pngs[r] # None => local[c].pngs[r] = Png(local[c].frames[r].bitmap)

\* C31: when a worker's error reaches a render that has a task outstanding on
\* that worker, the render is rejected; a rejected render can only fail: it
\* returns no outcome, starts no encode, writes no file and leaves the cache
\* as it was.
C31_WorkerErrorFailsRender ==
  [][\A c \in Calls :
       /\ (pc[c] = "process" /\ destroyed' = destroyed
             /\ \E w \in Workers :
                   /\ workers[w].outbox # <<>>
                   /\ Head(workers[w].outbox).type = "error"
                   /\ workers'[w].outbox = Tail(workers[w].outbox)
                   /\ HandlersFor(workers[w].handlers, job[c].id) # {})
            => local'[c].rejected
       /\ (pc[c] = "process" /\ local[c].rejected)
            => /\ pc'[c] \in {"process", "failed"}
               /\ pc'[c] = "failed" =>
                     /\ "error" \in DOMAIN result'[c]
                     /\ cache' = cache /\ lastStored' = lastStored /\ vfs' = vfs]_vars
C31_Witness ==
  \E c \in Calls :
    /\ pc[c] = "failed"
    /\ result[c].message = "worker error"
    /\ job[c].cacheKey = "k1"
    /\ cache = <<>>

\* C32: once processFrames has returned (the encode has started), the frame
\* at every rank carries the PNG the worker computes from the bitmap of the
\* decoded frame of the same index of the same job.
C32_PngOfSameIndex ==
  \A c \in Calls :
    pc[c] = "encodeRun" =>
      \A r \in DOMAIN local[c].pngs :
        \E n \in DOMAIN local[c].decoded :
          /\ local[c].decoded[n].descriptor.index = local[c].frames[r].descriptor.index
          /\ local[c].pngs[r] = Png(local[c].decoded[n].bitmap)

\* C33: the first frame is kept; a frame after the first that is not the
\* final one is dropped exactly when its delayMs is below minIntervalMs and
\* its similarity to the most recently kept frame before it is above
\* similarityThreshold (both strictly); the final frame is always kept.
C33_SkipRule ==
  (ret # None /\ Len(arg.frames) >= 1) =>
    LET in == arg.frames
        out == ret.frames
        n == Len(in)
        InOut(k) == \E i \in 1..Len(out) : out[i].descriptor.index = k - 1
        LastKeptBefore(k) ==
          in[CHOOSE j \in 1..(k - 1) :
               InOut(j) /\ \A m \in 1..(k - 1) : InOut(m) => m <= j]
        MeetsSkip(k) ==
          /\ in[k].descriptor.delayMs < arg.policy.minIntervalMs
          /\ SimilarityAbove(calculateSimilarity(LastKeptBefore(k).bitmap, in[k].bitmap),
                             arg.policy.similarityThreshold)
    IN /\ InOut(1)
       /\ InOut(n)
       /\ \A k \in 2..(n - 1) : InOut(k) <=> ~MeetsSkip(k)
\* The second frame is dropped; the third, like enough to the second but not
\* to the first, is kept.
C33_Witness ==
  /\ ret # None /\ Len(arg.frames) = 4
  /\ arg.policy.minIntervalMs = 16
  /\ arg.policy.similarityThreshold = [num |-> 985, den |-> 1000]
  /\ \A k \in 2..4 : arg.frames[k].descriptor.delayMs = 8
  /\ arg.frames[1].bitmap = <<100, 0, 0, 255>>
  /\ arg.frames[2].bitmap = <<110, 0, 0, 255>>
  /\ arg.frames[3].bitmap = <<120, 0, 0, 255>>
  /\ ret.frames = <<arg.frames[1], arg.frames[3], arg.frames[4]>>

\* C34: when encode starts its run for a job with n processed frames, the
\* files frame-NNNNN.png present are exactly the ranks 0..n-1, each written by
\* that job and holding its processed frame of that rank.
C34_EncodeSeesOwnFrames ==
  [][\A c \in Calls :
       (pc[c] = "process" /\ pc'[c] = "encodeRun") =>
         LET n == Len(local[c].pngs)
         IN /\ {q \in DOMAIN vfs' : q.kind = "frame" /\ q.id = 0}
                 = {EncodeFrameName(k) : k \in 0..(n - 1)}
            /\ \A k \in 0..(n - 1) :
                  /\ vfs'[EncodeFrameName(k)].writer = job[c].id
                  /\ vfs'[EncodeFrameName(k)].data = local[c].pngs[k + 1]]_vars

\* C35: once a video decode has returned its frames, the VFS holds neither
\* the job's input file nor any frame-{id}-NNNNN.png of the job, however many
\* PNGs the decode run wrote.
C35_DecodeLeavesNoFiles ==
  \A c \in Calls :
    (job[c].id # 0 /\ job[c].sourceType = "video" /\ pc[c] \in {"process", "encodeRun"}) =>
      /\ InputName(job[c]) \notin DOMAIN vfs
      /\ \A q \in DOMAIN vfs : ~(q.kind = "frame" /\ q.id = job[c].id)

\* C36: whichever unlinks throw, a step that ends a codec run and cleans up
\* fails only because the run, the read or the PNG parser threw, and when it
\* returns, the outcome is the one assembled from the video that was read.
C36_UnlinkNeverFails ==
  [][\A c \in Calls :
       (pc[c] \in {"fastRun", "posterRun", "decodeRun", "encodeRun"} /\ pc'[c] # pc[c]) =>
         /\ pc'[c] = "failed" =>
               result'[c].message \in {"ffmpeg run or readFile failed", "ffmpeg run failed",
                                       "PNG parse failed"}
         /\ pc'[c] = "done" =>
               LET video == IF pc[c] = "encodeRun" THEN Flatten(PatternFrames(vfs, 0))
                            ELSE IF pc[c] = "posterRun" THEN local[c].video
                            ELSE Flatten(vfs[InputName(job[c])].data)
               IN /\ result'[c].fromCache = FALSE
                  /\ result'[c].result.video = video
                  /\ result'[c].metrics.outputSizeBytes = Len(video)
                  /\ result'[c].result.mimeType = resolveMimeType(job[c].container)]_vars
\* Every unlink throws; a quality render has returned its outcome and its
\* frame and output files are still in the file system.
C36_Witness ==
  \E c \in Calls :
    /\ arg # None /\ arg.unlinkThrows = PathKinds
    /\ pc[c] = "done"
    /\ job[c].sourceType = "video" /\ job[c].pipeline = "quality"
    /\ result[c].result.video # <<>>
    /\ OutputName(job[c]) \in DOMAIN vfs
    /\ InputName(job[c]) \in DOMAIN vfs
    /\ EncodeFrameName(0) \in DOMAIN vfs

\* C37: after every step, each worker has as many handler pairs registered as
\* it has submissions whose promise is pending, and the emission of a message
\* of another type than processedFrame detaches no handler and settles no
\* promise.
C37_HandlersMatchPending ==
  [][/\ \A w \in Workers :
          Len(workers'[w].handlers) =
            Cardinality({i \in DOMAIN ret'.promises :
                           ret'.promises[i].worker = w /\ ret'.promises[i].state = "pending"})
     /\ \A w \in Workers :
          (destroyed' = destroyed /\ workers[w].outbox # <<>>
             /\ Head(workers[w].outbox).type = "other"
             /\ workers'[w].outbox = Tail(workers[w].outbox))
            => /\ workers'[w].handlers = workers[w].handlers
               /\ ret'.promises = ret.promises]_vars
\* A message of another type was emitted while listeners were registered;
\* since then one submission was resolved, one rejected, and one is pending
\* with its pair still registered.
C37_Witness ==
  /\ ret.ignored >= 1
  /\ Len(ret.promises) = MaxSubmissions
  /\ ret.promises[1].state = "resolved"
  /\ ret.promises[2].state = "rejected"
  /\ ret.promises[3].state = "pending"
  /\ Len(workers[0].handlers) = 1

\* C38: once the load of the codec runtime has failed, the service holds no
\* codec handle, and the next render call that misses the cache starts the
\* load again.
C38_LoadRetried ==
  [][/\ loadState' = "failed" => ~ffmpeg'
     /\ \A c \in Calls :
          (loadState = "failed" /\ job'[c] # job[c] /\ pc'[c] # "done")
            => pc'[c] = "awaitLoad" /\ loadState' = "loading"]_vars

\* C39: a task submitted after destroy is rejected: it is never the case that
\* its promise is not rejected while nothing is left that could settle it (no
\* event waiting to be emitted, no task waiting on a live worker).
C39_RejectedAfterDestroy ==
  \A i \in DOMAIN ret.promises :
    ret.promises[i].afterDestroy =>
      \/ ret.promises[i].state = "rejected"
      \/ \E w \in Workers :
            \/ workers[w].outbox # <<>>
            \/ workers[w].alive /\ workers[w].inbox # <<>>

\* The full-canvas content of the input frames, as the version that ran sees it.
FullCanvas ==
  IF ret.fn = "canvas"
  THEN [i \in 1 .. Len(arg) |-> expandToFullFrame(arg[i], CanvasWidth)]
  ELSE [i \in 1 .. Len(arg) |-> expandToFullFrames(arg, CanvasWidth)[i].data]

\* C40: sanitizeFrames removes exactly the frames whose full-canvas content
\* equals that of the closest kept frame before them: the returned frames are
\* the kept ones in input order, no two neighbours among them are identical,
\* and removed plus the number returned is the number of input frames.
C40_RemovesRepeatedFrames ==
  ret # None =>
    LET out == ret.out
        m == Len(out.sanitized)
        n == Len(arg)
    IN  /\ out.removed + m = n
        /\ \A j \in 1 .. m - 1 : out.sanitized[j] # out.sanitized[j + 1]
        /\ \E k \in [1 .. m -> 1 .. n] :
             /\ \A j \in 1 .. m - 1 : k[j] < k[j + 1]
             /\ \A j \in 1 .. m : out.sanitized[j] = FullCanvas[k[j]]
             /\ \A i \in 1 .. n :
                  (\A j \in 1 .. m : k[j] # i) <=>
                    \E j \in 1 .. m :
                      /\ k[j] < i
                      /\ \A q \in 1 .. m : k[q] < i => k[q] <= k[j]
                      /\ FullCanvas[k[j]] = FullCanvas[i]

\* Three composited frames of which the second repeats the first and is
\* removed, and the third differs and is kept.
C40_Witness ==
  /\ ret # None
  /\ ret.fn = "composited"
  /\ Len(arg) = 3
  /\ ret.out.removed = 1
  /\ Len(ret.out.sanitized) = 2
  /\ FullCanvas[1] = FullCanvas[2]
  /\ FullCanvas[2] # FullCanvas[3]
====
